---------------------------- MODULE Spec2Model ----------------------------
(***************************************************************************)
(* State-machine model of codiri: the memoizing LazyEvaluation node, the   *)
(* validating Input bundle, the constraint lists, Model.calculate, the     *)
(* ActivityMap raster with its dynamic raster factor and the dose          *)
(* formulas.                                                               *)
(*                                                                         *)
(* Each subsystem has its own specification (SpecLazy, SpecInput,          *)
(* SpecConstraints, SpecModel, SpecActivity, SpecFormulas) over the shared *)
(* variables; the variables of the other subsystems stay at their initial  *)
(* values.                                                                 *)
(*                                                                         *)
(* Python values that may be None are wrapped: None is the empty tuple and *)
(* a value v is the one-element tuple <<v>>.                               *)
(***************************************************************************)
EXTENDS Integers, Sequences, FiniteSets, TLC

VARIABLES
    \* LazyEvaluation (src/src/model/lazy_eval.py)
    formula,        \* self.__formula: which callable the node wraps
    results,        \* self.__results: argument tuple -> wrapped result
    invocations,    \* history: how often the formula ran, per argument tuple
    called,         \* history: the argument tuples the node answered
    lastCall,       \* history: the last __call__, its outcome
    \* Input (src/src/model/input.py)
    inp,            \* the Input object's slots (Input.__values), or None
    lastSet,        \* history: the last setter call and its outcome
    \* IConstraints (src/src/model/constraints.py)
    constraints,    \* self.__constraints: list of (validator, err_msg_cb)
    lastValidate,   \* history: the last validate(), validators run, error
    \* Model (src/src/model/model.py)
    levals,         \* the lazy nodes the model owns, each with its results
    lastCalc,       \* history: the last calculate(), its outcome
    \* ActivityMap (src/src/activity.py)
    grid,           \* x_res, y_res and the opened image's width and height
    img,            \* band 1 of self.__img: (row, col) -> uint16 code
    raster_factor,  \* self.__raster_factor: None or the rational num/den
    phys,           \* history: exact sum of contributions, per cell
    hist,           \* history: counters of the painting loop
    \* formulas (src/src/model/formulas.py)
    fcall,          \* one call of a formula: function, arguments, outcome
    \* Basin and BasinsFinder (src/src/basins.py)
    basinCall,      \* one Basin(...): its arguments and the object built
    finder,         \* BasinsFinder: self.__basins and the fate of every contour
    lastGet,        \* history: the last get_basin and what it returned
    \* calculate.py (src/calculate.py)
    doseCall,       \* one calculate_dose - the raster and what the loop did
    pointsCall      \* one calculate_doses_in_special_points - the rows written

lazyVars == <<formula, results, invocations, called, lastCall>>
inputVars == <<inp, lastSet>>
constraintVars == <<constraints, lastValidate>>
modelVars == <<levals, lastCalc>>
activityVars == <<grid, img, raster_factor, phys, hist>>
formulaVars == <<fcall>>
basinVars == <<basinCall, finder, lastGet>>
calcVars == <<doseCall, pointsCall>>
vars == <<formula, results, invocations, called, lastCall, inp, lastSet,
          constraints, lastValidate, levals, lastCalc,
          grid, img, raster_factor, phys, hist, fcall,
          basinCall, finder, lastGet,
          doseCall, pointsCall>>

None == <<>>
Some(v) == <<v>>
Unwrap(w) == w[1]

(***************************************************************************)
(* LazyEvaluation                                                          *)
(***************************************************************************)
MaxArg == 2
MaxInvocations == 3

\* The callables the tests wrap: MagicMock(return_value=None) (any
\* arguments), lambda: 1, lambda x: x**2, lambda x, y: x * y.
Formulas == {"mock_none", "one", "square", "product"}

ArgTuples ==
    {<<>>} \cup {<<a>> : a \in 1..MaxArg}
           \cup {<<a, b>> : a \in 1..MaxArg, b \in 1..MaxArg}

\* self.__formula(*params) binds: the tuple unpacks to the callable's arity
FormulaAccepts(f, params) ==
    CASE f = "mock_none" -> TRUE
      [] f = "one"       -> Len(params) = 0
      [] f = "square"    -> Len(params) = 1
      [] f = "product"   -> Len(params) = 2

\* the value self.__formula(*params) returns
FormulaValue(f, params) ==
    CASE f = "mock_none" -> None
      [] f = "one"       -> Some(1)
      [] f = "square"    -> Some(params[1] * params[1])
      [] f = "product"   -> Some(params[1] * params[2])

EmptyDict == [t \in {} |-> None]

\* a stored result that is None counts as missing
LazyCachedByValue(params) ==
    params \in DOMAIN results /\ results[params] # None

\* lazy_eval.py:26, negated: params in self.__results.keys()
LazyCached(params) == params \in DOMAIN results

\* every call overwrites the table instead of adding to it
LazyStoreFresh(params, value) == (params :> value)

\* lazy_eval.py:27: self.__results[params] = value
LazyStore(params, value) ==
    [t \in DOMAIN results \cup {params} |->
        IF t = params THEN value ELSE results[t]]

\* history before the first call
NoCall == [params |-> <<>>, outcome |-> "none", hit |-> FALSE, ret |-> None]
NoInvocations == [t \in ArgTuples |-> 0]

\* LazyEvaluation.__call__(params), answered from the table
LazyCallHit(params) ==
    /\ LazyCached(params)
    /\ lastCall' = [params |-> params, outcome |-> "ok", hit |-> TRUE,
                    ret |-> results[params]]
    /\ called' = called \cup {params}
    /\ UNCHANGED <<formula, results, invocations>>
    /\ UNCHANGED <<inputVars, constraintVars, modelVars, activityVars, formulaVars, basinVars, calcVars>>

\* LazyEvaluation.__call__(params), first use: the formula runs and its
\* value is stored
LazyCallMiss(params) ==
    /\ ~LazyCached(params)
    /\ FormulaAccepts(formula, params)
    /\ invocations[params] < MaxInvocations
    /\ invocations' = [invocations EXCEPT ![params] = @ + 1]
    /\ results' = LazyStore(params, FormulaValue(formula, params))
    /\ lastCall' = [params |-> params, outcome |-> "ok", hit |-> FALSE,
                    ret |-> results'[params]]
    /\ called' = called \cup {params}
    /\ UNCHANGED formula
    /\ UNCHANGED <<inputVars, constraintVars, modelVars, activityVars, formulaVars, basinVars, calcVars>>

\* LazyEvaluation.__call__(params) with a tuple the formula does not take:
\* the call raises TypeError before the formula body runs, nothing is stored
LazyCallTypeError(params) ==
    /\ ~LazyCached(params)
    /\ ~FormulaAccepts(formula, params)
    /\ lastCall' = [params |-> params, outcome |-> "TypeError", hit |-> FALSE,
                    ret |-> None]
    /\ UNCHANGED <<formula, results, invocations, called>>
    /\ UNCHANGED <<inputVars, constraintVars, modelVars, activityVars, formulaVars, basinVars, calcVars>>

LazyNext ==
    \E params \in ArgTuples :
        \/ LazyCallHit(params)
        \/ LazyCallMiss(params)
        \/ LazyCallTypeError(params)


(***************************************************************************)
(* Input and the validating maps                                           *)
(***************************************************************************)
MaxValue == 1

pasquill_gifford_classes == {"A", "B", "C", "D", "E", "F"}
TerrainTypes == {"greenland", "agricultural", "forest", "settlement"}
FoodCategories == {"meat", "milk", "wheat", "cucumbers", "cabbage", "potato"}

\* the nine slots with a setter, and the slot holding the nuclide map
ScalarFields ==
    {"distance", "square_side", "precipitation_rate", "extreme_windspeeds",
     "age", "terrain_type", "blowout_time", "buffer_area_radius",
     "adults_annual_food_intake"}
Fields == ScalarFields \cup {"specific_activities"}

\* nuclides a caller may name; the last one is unknown to the reference
Nuclides == {"Cs-137", "Xe-133"}

\* Input.__init__: every slot None, but specific_activities, which holds an
\* empty ValidatingMap from the start
InputNew ==
    [f \in Fields |-> IF f = "specific_activities" THEN Some(EmptyDict) ELSE None]

\* the validator lambda each setter passes along with the value; a dict is
\* modelled by its key set, which is all its validator reads
InputValidator(field, v) ==
    CASE field \in {"distance", "square_side", "precipitation_rate", "age",
                    "buffer_area_radius"}     -> v >= 0
      [] field = "blowout_time"               -> v > 0
      [] field = "specific_activities"        -> v > 0
      [] field = "terrain_type"               -> v \in TerrainTypes
      [] field = "extreme_windspeeds"         -> v = pasquill_gifford_classes
      [] field = "adults_annual_food_intake"  -> v = FoodCategories

\* MapImpl.__setitem__: plain dict store, new keys allowed
MapImplSetItem(map, key, value) ==
    [k \in DOMAIN map \cup {key} |-> IF k = key THEN value ELSE map[k]]

\* FixedMap.__setitem__: KeyError for a key the map was not built with
FixedMapSetItem(map, key, value) ==
    IF key \notin DOMAIN map
    THEN [err |-> "KeyError", map |-> map]
    ELSE [err |-> "none", map |-> MapImplSetItem(map, key, value)]

\* the store happens first and the validator only decides the error
ValidatingMapSetItemLate(map, key, value, valid, fixed) ==
    LET stored == IF fixed THEN FixedMapSetItem(map, key, Some(value))
                  ELSE [err |-> "none", map |-> MapImplSetItem(map, key, Some(value))]
    IN  IF ~valid THEN [err |-> "ValueError", map |-> stored.map] ELSE stored

\* ValidatingMap.__setitem__(key, (value, validator, err_msg)): `valid` is
\* validator(value), `fixed` says whether the implementation map is a
\* FixedMap (ValidatingFixedMap)
ValidatingMapSetItem(map, key, value, valid, fixed) ==
    IF ~valid
    THEN [err |-> "ValueError", map |-> map]
    ELSE IF fixed THEN FixedMapSetItem(map, key, Some(value))
         ELSE [err |-> "none", map |-> MapImplSetItem(map, key, Some(value))]

\* MapImpl.initialized: no slot is None
MapImplInitialized(map) == \A k \in DOMAIN map : map[k] # None

\* Input.specific_activities
SpecificActivities(i) == Unwrap(i["specific_activities"])

\* the specific-activity map is not looked at
InputInitializedNoCount(i) == MapImplInitialized(i)

\* Input.initialized
InputInitialized(i) ==
    MapImplInitialized(i) /\ Cardinality(DOMAIN SpecificActivities(i)) > 0

\* the values a caller hands to each setter, valid and invalid ones
Candidates(field) ==
    CASE field = "distance"                  -> -1..MaxValue
      [] field \in {"square_side", "precipitation_rate", "age",
                    "buffer_area_radius"}    -> {-1, 0}
      [] field = "blowout_time"              -> {0, 1}
      [] field = "terrain_type"              -> {"greenland", "invalid"}
      [] field = "extreme_windspeeds"        -> {{"1"}, pasquill_gifford_classes}
      [] field = "adults_annual_food_intake" ->
            {FoodCategories, FoodCategories \ {"potato"}}

\* the specific activities a caller hands to add_specific_activity
ActivityCandidates == {0, 1}

\* history before the first setter call
NoSet == [field |-> "none", key |-> "none", value |-> None,
          outcome |-> "none", done |-> {}]

\* one of the nine property setters, e.g. `inp.distance = value`
InputSet(field, value) ==
    LET r == ValidatingMapSetItem(inp, field, value,
                                  InputValidator(field, value), TRUE) IN
    /\ inp' = r.map
    /\ lastSet' = [field |-> field, key |-> field, value |-> Some(value),
                   outcome |-> IF r.err = "none" THEN "ok" ELSE r.err,
                   done |-> IF r.err = "none" THEN lastSet.done \cup {field}
                            ELSE lastSet.done]
    /\ UNCHANGED <<lazyVars, constraintVars, modelVars, activityVars, formulaVars, basinVars, calcVars>>

\* Input.add_specific_activity(nuclide, specific_activity): the inner map is
\* a plain ValidatingMap, its validator is x > 0 whatever the key
InputAddSpecificActivity(nuclide, activity) ==
    LET r == ValidatingMapSetItem(SpecificActivities(inp), nuclide, activity,
                 InputValidator("specific_activities", activity), FALSE) IN
    /\ inp' = [inp EXCEPT !["specific_activities"] = Some(r.map)]
    /\ lastSet' = [field |-> "specific_activities", key |-> nuclide,
                   value |-> Some(activity),
                   outcome |-> IF r.err = "none" THEN "ok" ELSE r.err,
                   done |-> IF r.err = "none"
                            THEN lastSet.done \cup {"specific_activities"}
                            ELSE lastSet.done]
    /\ UNCHANGED <<lazyVars, constraintVars, modelVars, activityVars, formulaVars, basinVars, calcVars>>

InputNext ==
    \/ \E field \in ScalarFields : \E value \in Candidates(field) :
          InputSet(field, value)
    \/ \E nuclide \in Nuclides : \E activity \in ActivityCandidates :
          InputAddSpecificActivity(nuclide, activity)


(***************************************************************************)
(* IConstraints and DefaultConstraints                                     *)
(***************************************************************************)
MaxConstraints == 5
MaxDistance == 50000

\* reference.all_nuclides() as the tests' reference answers it
KnownNuclides == {"Cs-137", "Sr-90"}

\* an Input on which the setters named by the arguments have succeeded:
\* distance d, square side s, a specific activity of 1 for each nuclide of
\* nucs, and every other field but `unset` at a valid value
MkInput(d, s, nucs, unset) ==
    LET full == [f \in Fields |->
            CASE f = "distance"                  -> Some(d)
              [] f = "square_side"               -> Some(s)
              [] f = "specific_activities"       -> Some([n \in nucs |-> Some(1)])
              [] f = "precipitation_rate"        -> Some(1)
              [] f = "extreme_windspeeds"        -> Some(pasquill_gifford_classes)
              [] f = "age"                       -> Some(1)
              [] f = "terrain_type"              -> Some("greenland")
              [] f = "blowout_time"              -> Some(1)
              [] f = "buffer_area_radius"        -> Some(0)
              [] f = "adults_annual_food_intake" -> Some(FoodCategories)]
    IN  [f \in Fields |-> IF f = unset THEN None ELSE full[f]]

\* distances and square sides on both sides of each default constraint
Distances == {1, MaxDistance, MaxDistance + 1}
Sides == {0, 2, 2 * MaxDistance + 2}

\* the inputs handed to validate(): distance and square side are set
ConstraintInputs ==
    {MkInput(d, s, nucs, "age") :
        d \in Distances, s \in Sides, nucs \in SUBSET Nuclides}

\* the distance bound is strict
ValidatorResultStrict(validator, i) ==
    CASE validator = "mock_true"      -> TRUE
      [] validator = "mock_false"     -> FALSE
      [] validator = "max_distance"   -> Unwrap(i["distance"]) < MaxDistance
      [] validator = "half_side"      ->
            2 * Unwrap(i["distance"]) > Unwrap(i["square_side"])
      [] validator = "known_nuclides" ->
            \A nuclide \in DOMAIN SpecificActivities(i) : nuclide \in KnownNuclides

\* validator(inp) for the validators in use: the two mocks of the tests
\* and the three callbacks DefaultConstraints registers
ValidatorResult(validator, i) ==
    CASE validator = "mock_true"      -> TRUE
      [] validator = "mock_false"     -> FALSE
      [] validator = "max_distance"   -> Unwrap(i["distance"]) <= MaxDistance
      [] validator = "half_side"      ->
            2 * Unwrap(i["distance"]) > Unwrap(i["square_side"])
      [] validator = "known_nuclides" ->
            \A nuclide \in DOMAIN SpecificActivities(i) : nuclide \in KnownNuclides

\* DefaultConstraints.__init__: the three constraints, in this order; a
\* message is the pair (text, position)
DefaultConstraints ==
    << [validator |-> "max_distance",   msg |-> <<"exceeds the maximum", 1>>],
       [validator |-> "half_side",      msg |-> <<"should exceed half side", 2>>],
       [validator |-> "known_nuclides", msg |-> <<"unknown nuclide", 3>>] >>

\* every validator runs and the last failure is the one raised
RECURSIVE ValidateFromAll(_, _, _)
ValidateFromAll(cs, i, k) ==
    IF k > Len(cs) THEN [calls |-> <<>>, err |-> None]
    ELSE LET rest == ValidateFromAll(cs, i, k + 1) IN
         [calls |-> <<k>> \o rest.calls,
          err |-> IF rest.err # None THEN rest.err
                  ELSE IF ~ValidatorResult(cs[k].validator, i)
                       THEN Some(cs[k].msg) ELSE None]

\* IConstraints.validate from the k-th constraint on: the validators
\* invoked (by position) and the ConstraintsComplianceError raised, if any
RECURSIVE ValidateFrom(_, _, _)
ValidateFrom(cs, i, k) ==
    IF k > Len(cs) THEN [calls |-> <<>>, err |-> None]
    ELSE IF ~ValidatorResult(cs[k].validator, i)
         THEN [calls |-> <<k>>, err |-> Some(cs[k].msg)]
         ELSE LET rest == ValidateFrom(cs, i, k + 1) IN
              [calls |-> <<k>> \o rest.calls, err |-> rest.err]

\* IConstraints.add(validator, err_msg_cb): append
ConstraintsAdd(validator) ==
    /\ Len(constraints) < MaxConstraints
    /\ constraints' = Append(constraints,
          [validator |-> validator, msg |-> <<"mock", Len(constraints) + 1>>])
    /\ UNCHANGED lastValidate
    /\ UNCHANGED <<lazyVars, inputVars, modelVars, activityVars, formulaVars, basinVars, calcVars>>

\* IConstraints.validate(inp)
ConstraintsValidate(i) ==
    LET r == ValidateFrom(constraints, i, 1) IN
    /\ lastValidate' = Some([cs |-> constraints, inp |-> i,
                             calls |-> r.calls, err |-> r.err])
    /\ UNCHANGED constraints
    /\ UNCHANGED <<lazyVars, inputVars, modelVars, activityVars, formulaVars, basinVars, calcVars>>

ConstraintsNext ==
    \/ \E validator \in {"mock_true", "mock_false"} : ConstraintsAdd(validator)
    \/ \E i \in ConstraintInputs : ConstraintsValidate(i)

(***************************************************************************)
(* Model.calculate                                                         *)
(***************************************************************************)
\* what an attribute lookup finds on a ValidatingMap and on a
\* LazyEvaluation: the names their classes define
ValidatingMapAttrs ==
    {"__init__", "__iter__", "__getitem__", "__setitem__", "__str__",
     "__repr__", "__len__", "initialized"}
LazyEvaluationAttrs == {"__init__", "__call__", "results"}

\* the nodes calculate() assigns, in the order of its four _set_* calls
XmaxLevals == {"_x_max"}
ExposureLevals ==
    {"_annual_food_intake", "_ed_food", "_ed_inh", "_residence_time_coeff",
     "_ed_surf", "_ed_cloud"}
TotalLevals == {"_ed_total_period", "_ed_total_acute"}
DoseLevals == {"_ed_acute", "_ed_for_period"}

\* the inputs handed to calculate(): None, or an Input with at most one
\* field left unset
ModelInputs ==
    {None} \cup
    {Some(MkInput(d, s, nucs, unset)) :
        d \in Distances, s \in Sides, nucs \in SUBSET Nuclides,
        unset \in ScalarFields \cup {"none"}}

\* a constraint failure is logged and the input accepted all the same
ValidateInputIgnoringConstraints(i) ==
    i # None /\ InputInitialized(Unwrap(i))

\* Model.validate_input: the ConstraintsComplianceError is caught here
ValidateInput(i) ==
    /\ i # None
    /\ InputInitialized(Unwrap(i))
    /\ ValidateFrom(constraints, Unwrap(i), 1).err = None

\* fresh nodes, each with an empty results table, under the given names
FreshLevals(names, old) ==
    [n \in DOMAIN old \cup names |-> IF n \in names THEN EmptyDict ELSE old[n]]

\* Model.calculate(inp), lines 93-100, for an input that passed
\* validate_input: the statement that raises and the nodes assigned by then
CalculateBody(old) ==
    IF "keys" \notin ValidatingMapAttrs
    THEN \* line 93: inp.specific_activities.keys()
         [outcome |-> "AttributeError", line |-> 93, levals |-> old]
    ELSE LET built == FreshLevals(XmaxLevals \cup ExposureLevals
                                  \cup TotalLevals \cup DoseLevals, old) IN
         IF "exec" \notin LazyEvaluationAttrs
         THEN \* line 98: self._ed_acute.exec()
              [outcome |-> "AttributeError", line |-> 98, levals |-> built]
         ELSE \* line 241: make_ed_total_list rebinds ed_total to list() and
              \* calls ed_total.exec for the first nuclide
              [outcome |-> "AttributeError", line |-> 241, levals |-> built]

\* Model.calculate(inp)
Calculate(i) ==
    /\ IF ~ValidateInput(i)
       THEN /\ lastCalc' = Some([inp |-> i, outcome |-> "False", line |-> 91])
            /\ UNCHANGED levals
       ELSE LET r == CalculateBody(levals) IN
            /\ lastCalc' = Some([inp |-> i, outcome |-> r.outcome, line |-> r.line])
            /\ levals' = r.levals
    /\ UNCHANGED constraints
    /\ UNCHANGED lastValidate
    /\ UNCHANGED <<lazyVars, inputVars, activityVars, formulaVars, basinVars, calcVars>>

ModelNext == \E i \in ModelInputs : Calculate(i)

(***************************************************************************)
(* ActivityMap                                                             *)
(*                                                                         *)
(* Activities are exact rationals here where the code has floats: the      *)
(* raster factor is the fraction num/den, a contribution is an integer.    *)
(* Geometry (buffering, intersection, nearest points) is outside the       *)
(* model: a shoreline segment is given by its footprint, the intersection  *)
(* area of its buffer with the cell polygon at each (i, j) the loop        *)
(* visits, and a measurement by whether it lies inside the body and by its *)
(* distance to each shoreline segment. Coordinates are whole metres of     *)
(* EPSG:3857, so no reprojection takes place.                              *)
(***************************************************************************)
MaxCalls == 2
max_raster_code == 65535
measurement_proximity == 10
contamination_depth == 10

Coordinate(lon, lat) == [lon |-> lon, lat |-> lat]

\* the corner ul the maps are built from
UpperLeft == Coordinate(0, 4)

\* (lr.lon - ul.lon, ul.lat - lr.lat, step) of the maps built: whole and
\* broken numbers of steps, square and non-square, an lr left of ul or above
\* it, and extents shorter than a step
Extents ==
    { <<1, 1, 1>>, <<2, 2, 1>>, <<3, 3, 2>>, <<1, 2, 1>>, <<2, 1, 1>>,
      <<5, 3, 2>>, <<-1, 1, 1>>, <<2, -1, 2>>, <<0, 2, 1>>, <<1, 2, 2>>,
      <<3, 1, 2>> }

\* the arguments of ActivityMap(ul, lr, step, nuclide)
Constructions ==
    { [ul |-> UpperLeft,
       lr |-> Coordinate(UpperLeft.lon + e[1], UpperLeft.lat - e[2]),
       step |-> e[3]] : e \in Extents }

\* abs() and math.floor(a / b) for b > 0
Abs(x) == IF x < 0 THEN -x ELSE x
Floor(a, b) == a \div b

\* intersection areas of a touched cell
Areas == {1}
\* undefined float -> uint16 conversion of a value out of range: the low
\* 16 bits, or the nearest bound
CastOutcomes == {"wrap", "saturate"}

\* ActivityMap.__init_img: ExceedingStepError when a resolution is 0;
\* otherwise the array is (x_res, y_res) and the image is opened with
\* height = data.shape[0] and width = data.shape[1]
InitImg(ul, lr, step) ==
    LET x_res == Abs(Floor(lr.lon - ul.lon, step))
        y_res == Abs(Floor(ul.lat - lr.lat, step))
        failed == x_res = 0 \/ y_res = 0
    IN  [ul |-> ul, lr |-> lr, step |-> step, x_res |-> x_res, y_res |-> y_res,
         height |-> IF failed THEN 0 ELSE x_res,
         width |-> IF failed THEN 0 ELSE y_res,
         err |-> IF failed THEN "ExceedingStepError" ELSE "none"]

\* the indices of band 1 as img.read(1) returns it: (height, width)
RasterCells(g) == (0..(g.height - 1)) \X (0..(g.width - 1))

\* the (i, j) pairs of the painting loop, in its order:
\* for i in range(img.width): for j in range(img.height)
LoopCells(g) ==
    [k \in 1..(g.width * g.height) |->
        <<(k - 1) \div g.height, (k - 1) % g.height>>]

LoopCellSet(g) == {LoopCells(g)[k] : k \in 1..(g.width * g.height)}

\* distances to n shoreline segments: on every segment, at the proximity
\* bound of every segment, beyond it for every segment, and on segment k
\* while beyond the bound for the others
Near(n) == [k \in 1..n |-> 0]
AtProximity(n) == [k \in 1..n |-> measurement_proximity]
Far(n) == [k \in 1..n |-> measurement_proximity + 1]
NearOnly(n, k) == [Far(n) EXCEPT ![k] = 0]

\* a measurement outside the body
Measurement(surface, dist) ==
    [surface_1cm |-> surface, inside |-> FALSE, dist |-> dist]

\* a measurement inside the body
Inside(n) == [surface_1cm |-> 1, inside |-> TRUE, dist |-> Near(n)]

\* the measurement lists handed to add_basin with a basin of n shoreline
\* segments
MeasurementLists(n) ==
    { <<>>, <<Measurement(0, Near(n))>>, <<Measurement(1, Near(n))>>,
      <<Measurement(2, Near(n))>>,
      <<Measurement(1, Near(n)), Measurement(3, Near(n))>>,
      <<Measurement(5, Near(n))>>,
      <<Inside(n)>>,
      <<Measurement(1, AtProximity(n))>>,
      <<Measurement(1, Near(n)), Measurement(1, Far(n))>>,
      <<Measurement(1, Far(n)), Inside(n)>> }
    \cup
    (IF n = 1 THEN {}
     ELSE { <<Measurement(1, NearOnly(n, 1))>>,
            <<Measurement(1, NearOnly(n, 1)), Measurement(3, NearOnly(n, 2))>> })

\* footprints of a shoreline segment: no cell or one cell of the loop
Footprints(g) ==
    {fp \in [LoopCellSet(g) -> {0} \cup Areas] :
        \A c, d \in LoopCellSet(g) : (fp[c] # 0 /\ fp[d] # 0) => c = d}

\* basin.shoreline: one or two segments
Shorelines(g) ==
    {<<fp>> : fp \in Footprints(g)}
        \cup {<<fp1, fp2>> : fp1 \in Footprints(g), fp2 \in Footprints(g)}

\* the basins handed to add_basin: objects with a shoreline_width, as the
\* tests build them, and Basins of basins.py, which have none (of these,
\* the ones whose segments share a footprint)
Basins(g) ==
    [shoreline : Shorelines(g), shoreline_width : {Some(1)}]
    \cup
    [shoreline : {<<fp>> : fp \in Footprints(g)}
                    \cup {<<fp, fp>> : fp \in Footprints(g)},
     shoreline_width : {None}]

\* a measurement at the proximity bound is too far
RECURSIVE CheckMeasurementsStrict(_, _)
CheckMeasurementsStrict(ms, k) ==
    IF k > Len(ms) THEN "ok"
    ELSE IF ms[k].inside THEN "InvalidMeasurementLocation"
    ELSE IF ~(\E segment \in DOMAIN ms[k].dist :
                 ms[k].dist[segment] < measurement_proximity)
         THEN "ExceedingMeasurementProximity"
    ELSE CheckMeasurementsStrict(ms, k + 1)

\* ActivityMap.__check_measurments: the first measurement that fails
\* decides the error
RECURSIVE CheckMeasurements(_, _)
CheckMeasurements(ms, k) ==
    IF k > Len(ms) THEN "ok"
    ELSE IF ms[k].inside THEN "InvalidMeasurementLocation"
    ELSE IF ~(\E segment \in DOMAIN ms[k].dist :
                 ms[k].dist[segment] <= measurement_proximity)
         THEN "ExceedingMeasurementProximity"
    ELSE CheckMeasurements(ms, k + 1)

RECURSIVE SumSurface(_, _)
SumSurface(ms, k) ==
    IF k > Len(ms) THEN 0 ELSE ms[k].surface_1cm + SumSurface(ms, k + 1)

\* the sum in place of the mean
AverageSurfaceActivityTotal(ms) == SumSurface(ms, 1) * contamination_depth

\* ActivityMap.__calculate_average_surface_activity; the lists in use have
\* a whole mean, so the division is exact
AverageSurfaceActivity(ms) ==
    (SumSurface(ms, 1) * contamination_depth) \div Len(ms)

\* ActivityMap.__make_raster_factor: max_raster_code / (2 * activity).
\* Every factor the map ever holds is made here, so a factor is kept as its
\* divisor d and stands for the fraction max_raster_code / d
MakeRasterFactor(activity) == 2 * activity

\* ActivityMap.__update_raster_factor: a new factor when there is none or
\* when raster_factor * activity > max_raster_code, which for the factor
\* max_raster_code / d is activity > d
UpdateRasterFactor(rf, activity) ==
    IF rf = None \/ activity > Unwrap(rf)
    THEN MakeRasterFactor(activity)
    ELSE Unwrap(rf)

\* astype(uint16) / the store of a float into the uint16 array: truncation,
\* and for a value above the range one of the conversion's outcomes
CastUint16(x, ub) ==
    IF x <= max_raster_code THEN x
    ELSE IF ub = "wrap" THEN x % (max_raster_code + 1) ELSE max_raster_code

\* (data / old * new).astype(uint16), new / old being old's divisor over
\* new's
Rescale(data, old, new, ub) ==
    [c \in DOMAIN data |-> CastUint16((data[c] * old) \div new, ub)]

\* lines 100-108 for a non-zero contribution: the factor rf of line 99
\* becomes the map's factor, the local data is rescaled when rf differs
\* from the factor held, and the contribution's code is added to the cell
StoreContribution(st, cell, activity, rf, data, ub) ==
    IF cell \notin DOMAIN data
    THEN \* data[i, j] is out of bounds: IndexError after the factor
         \* was updated
         [st EXCEPT !.rf = Some(rf), !.err = "IndexError",
                    !.contributions = @ + 1]
    ELSE [st EXCEPT
            !.rf = Some(rf),
            !.data = [data EXCEPT
                        ![cell] = CastUint16((@ * rf + max_raster_code * activity)
                                                \div rf, ub)],
            !.phys = [@ EXCEPT ![cell] = @ + activity],
            !.contributions = @ + 1,
            !.writes = @ + 1 + (IF data = st.data THEN 0 ELSE 1),
            !.overflow = @ \/ (data[cell] * rf + max_raster_code * activity)
                                  \div rf > max_raster_code]

\* one pass of the loop body (lines 92-108) for the k-th (i, j) of segment
\* footprint fp; st carries the local data, the factor, the error raised
\* and the history
PaintCell(g, st, fp, k, S, ub) ==
    LET cell == LoopCells(g)[k]
        rf == UpdateRasterFactor(st.rf, S * fp[cell])
    IN  IF fp[cell] = 0 THEN st
        ELSE StoreContribution(st, cell, S * fp[cell], rf,
                IF st.rf # None /\ rf # Unwrap(st.rf)
                THEN Rescale(st.data, Unwrap(st.rf), rf, ub) ELSE st.data,
                ub)

\* the loops of lines 90-108 over one segment, from the k-th (i, j) on
RECURSIVE PaintSegment(_, _, _, _, _, _)
PaintSegment(g, st, fp, k, S, ub) ==
    IF k > g.width * g.height \/ st.err # "none" THEN st
    ELSE PaintSegment(g, PaintCell(g, st, fp, k, S, ub), fp, k + 1, S, ub)

\* the loop of line 84 over basin.shoreline, from the n-th segment on
RECURSIVE PaintShoreline(_, _, _, _, _, _)
PaintShoreline(g, st, shoreline, n, S, ub) ==
    IF n > Len(shoreline) \/ st.err # "none" THEN st
    ELSE PaintShoreline(g, PaintSegment(g, st, shoreline[n], 1, S, ub),
                        shoreline, n + 1, S, ub)

\* history before the first add_basin: calls made, non-zero contributions
\* the loop came to (line 98), stores and rescales written to the image,
\* whether a store went above the range, how the last call ended and how
\* many measurements it was given
NoHist ==
    [calls |-> 0, contributions |-> 0, writes |-> 0, overflow |-> FALSE,
     last |-> "none", measurements |-> 0]

\* ActivityMap.add_basin, lines 70-80: how the call leaves before the raster
\* is read, or "paint" when it goes on
AddBasinEntry(ms) ==
    IF ms = <<>> THEN "empty"
    ELSE IF CheckMeasurements(ms, 1) # "ok" THEN CheckMeasurements(ms, 1)
    ELSE IF AverageSurfaceActivity(ms) = 0 THEN "zero"
    ELSE "paint"

\* a call that leaves early also forgets the factor
AddBasinUnpaintedForgets(ms) ==
    /\ AddBasinEntry(ms) # "paint"
    /\ hist' = [hist EXCEPT !.calls = @ + 1, !.last = AddBasinEntry(ms),
                            !.measurements = Len(ms)]
    /\ raster_factor' = None
    /\ UNCHANGED <<grid, img, phys>>
    /\ UNCHANGED <<lazyVars, inputVars, constraintVars, modelVars, formulaVars, basinVars, calcVars>>

\* a call that leaves early writes an empty raster
AddBasinUnpaintedClears(ms) ==
    /\ AddBasinEntry(ms) # "paint"
    /\ hist' = [hist EXCEPT !.calls = @ + 1, !.last = AddBasinEntry(ms),
                            !.measurements = Len(ms)]
    /\ img' = [c \in DOMAIN img |-> 0]
    /\ UNCHANGED <<grid, raster_factor, phys>>
    /\ UNCHANGED <<lazyVars, inputVars, constraintVars, modelVars, formulaVars, basinVars, calcVars>>

\* ActivityMap.add_basin with no measurements, with measurements that fail
\* the checks, or with measurements of zero average: returns or raises
\* before the raster is read
AddBasinUnpainted(ms) ==
    /\ AddBasinEntry(ms) # "paint"
    /\ hist' = [hist EXCEPT !.calls = @ + 1, !.last = AddBasinEntry(ms),
                            !.measurements = Len(ms)]
    /\ UNCHANGED <<grid, img, raster_factor, phys>>
    /\ UNCHANGED <<lazyVars, inputVars, constraintVars, modelVars, formulaVars, basinVars, calcVars>>

\* ActivityMap.add_basin with a basin that has no shoreline_width: line 86
\* raises AttributeError for the first segment, before any cell is looked at
AddBasinAttributeError(ms, basin) ==
    /\ AddBasinEntry(ms) = "paint"
    /\ basin.shoreline_width = None
    /\ hist' = [hist EXCEPT !.calls = @ + 1, !.last = "AttributeError",
                            !.measurements = Len(ms)]
    /\ UNCHANGED <<grid, img, raster_factor, phys>>
    /\ UNCHANGED <<lazyVars, inputVars, constraintVars, modelVars, formulaVars, basinVars, calcVars>>

\* lines 82-108 of add_basin on the map as it is, for surface activity S:
\* the local data, the factor and the error the loops end with
PaintBasin(shoreline, S, ub) ==
    PaintShoreline(grid,
        [data |-> img, rf |-> raster_factor, err |-> "none", phys |-> phys,
         contributions |-> hist.contributions, writes |-> hist.writes,
         overflow |-> FALSE],
        shoreline, 1, S, ub)

\* ActivityMap.add_basin painting the basin's shoreline: the image is
\* written at the end, unless an IndexError left the loop before. The
\* outcomes of the conversion differ only when a store overflowed.
AddBasinPaint(ms, basin) ==
    /\ AddBasinEntry(ms) = "paint"
    /\ basin.shoreline_width # None
    /\ \E wrapped \in
            {PaintBasin(basin.shoreline, AverageSurfaceActivity(ms), "wrap")} :
       \E st \in IF wrapped.overflow
                 THEN {PaintBasin(basin.shoreline, AverageSurfaceActivity(ms), ub) :
                          ub \in CastOutcomes}
                 ELSE {wrapped} :
           /\ raster_factor' = st.rf
           /\ img' = IF st.err = "none" THEN st.data ELSE img
           /\ phys' = IF st.err = "none" THEN st.phys ELSE phys
           /\ hist' = [calls |-> hist.calls + 1, contributions |-> st.contributions,
                       writes |-> IF st.err = "none" THEN st.writes ELSE hist.writes,
                       overflow |-> IF st.err = "none"
                                    THEN hist.overflow \/ st.overflow
                                    ELSE hist.overflow,
                       last |-> IF st.err = "none" THEN "painted" ELSE st.err,
                       measurements |-> Len(ms)]
    /\ UNCHANGED grid
    /\ UNCHANGED <<lazyVars, inputVars, constraintVars, modelVars, formulaVars, basinVars, calcVars>>

\* the calls of add_basin on one map that was constructed, MaxCalls of
\* them at most
ActivityNext ==
    /\ grid.err = "none"
    /\ hist.calls < MaxCalls
    /\ \/ \E n \in 1..2 : \E ms \in MeasurementLists(n) : AddBasinUnpainted(ms)
       \/ \E basin \in Basins(grid) :
             \E ms \in MeasurementLists(Len(basin.shoreline)) :
                AddBasinAttributeError(ms, basin)
       \/ \E basin \in Basins(grid) :
             \E ms \in MeasurementLists(Len(basin.shoreline)) :
                AddBasinPaint(ms, basin)

(***************************************************************************)
(* Formulas (src/src/model/formulas.py)                                    *)
(*                                                                         *)
(* The formulas are pure functions.  A call is a record holding the        *)
(* function's name, its arguments and, once the function has run, its      *)
(* outcome: the returned value or the exception raised.  Doses and         *)
(* distances are integers.                                                 *)
(***************************************************************************)
MaxDose == 2
MaxYears == 2

Returned(v) == [raised |-> "none", value |-> Some(v)]
Raised(e) == [raised |-> e, value |-> None]

\* dose arguments of one call
Doses == 0..MaxDose

\* nuclide_groups dictionaries: every dictionary over a subset of Nuclides,
\* the one of the tests included; "unknown" is a key of none of them
Groups == {"aerosol", "IRG"}
NuclideGroups == UNION {[ns -> Groups] : ns \in SUBSET Nuclides}
NuclideNames == Nuclides \cup {"unknown"}
Years == (-1)..MaxYears

\* total_effective_dose_for_period with the period check ahead of the
\* nuclide lookup
period_dose_period_first(years, nuclide, cloud_ed, inh_ed, surf_ed, food_ed, nuclide_groups) ==
    IF years <= 0 THEN Raised("invalid period")
    ELSE IF nuclide \notin DOMAIN nuclide_groups
    THEN Raised("unknown nuclide")
    ELSE IF nuclide_groups[nuclide] = "IRG" THEN Returned(cloud_ed)
    ELSE IF years = 1
    THEN Returned(cloud_ed + inh_ed + surf_ed + food_ed)
    ELSE Raised("NotImplementedError")

\* total_effective_dose_for_period: the two ValueErrors carry the messages
\* "unknown nuclide '...'" and "invalid period '...'"
total_effective_dose_for_period(years, nuclide, cloud_ed, inh_ed, surf_ed, food_ed, nuclide_groups) ==
    IF nuclide \notin DOMAIN nuclide_groups THEN Raised("unknown nuclide")
    ELSE IF years <= 0 THEN Raised("invalid period")
    ELSE IF nuclide_groups[nuclide] = "IRG" THEN Returned(cloud_ed)
    ELSE IF years = 1
    THEN Returned(cloud_ed + inh_ed + surf_ed + food_ed)
    ELSE Raised("NotImplementedError")

PeriodDoseCalls ==
    {[fn |-> "total_effective_dose_for_period",
      args |-> [years |-> y, nuclide |-> n, cloud_ed |-> d[1],
                inh_ed |-> d[2], surf_ed |-> d[3], food_ed |-> d[4],
                nuclide_groups |-> g],
      out |-> None] :
        y \in Years, n \in NuclideNames,
        d \in Doses \X Doses \X Doses \X Doses, g \in NuclideGroups}

CallPeriodDose ==
    /\ fcall.fn = "total_effective_dose_for_period"
    /\ fcall.out = None
    /\ fcall' = [fcall EXCEPT !.out =
                    Some(total_effective_dose_for_period(
                             fcall.args.years, fcall.args.nuclide,
                             fcall.args.cloud_ed, fcall.args.inh_ed,
                             fcall.args.surf_ed, fcall.args.food_ed,
                             fcall.args.nuclide_groups))]
    /\ UNCHANGED <<lazyVars, inputVars, constraintVars, modelVars,
                   activityVars, basinVars, calcVars>>

\* max() of a non-empty collection of numbers
MaxOf(S) == CHOOSE m \in S : \A v \in S : v <= m

\* per-nuclide dictionaries class -> dose: all zero but at most two classes;
\* and the two dictionaries of test_effective_dose
PeakDoses(a, v, b, w) ==
    [c \in pasquill_gifford_classes |->
        IF c = a THEN v ELSE IF c = b THEN w ELSE 0]
AclassDoses ==
    {PeakDoses(a, v, b, w) :
        a \in pasquill_gifford_classes, v \in Doses,
        b \in pasquill_gifford_classes, w \in Doses}
TestAclassDoses ==
    <<[A |-> 1, B |-> 2, C |-> 3, D |-> 2, E |-> 1, F |-> 0],
      [A |-> 1, B |-> 4, C |-> 9, D |-> 16, E |-> 9, F |-> 4]>>
NuclideAclassDoses ==
    {<<>>, TestAclassDoses}
        \cup {<<d>> : d \in AclassDoses}
        \cup {<<d, e>> : d \in AclassDoses, e \in AclassDoses}

\* the loop of effective_dose over the list, from its k-th dictionary on:
\* aclass_doses[aclass] += nuclide_doses[aclass]
RECURSIVE AccumulateAclassDoses(_, _, _)
AccumulateAclassDoses(aclass_doses, nuclide_aclass_doses, k) ==
    IF k > Len(nuclide_aclass_doses) THEN aclass_doses
    ELSE AccumulateAclassDoses(
             [aclass \in pasquill_gifford_classes |->
                 aclass_doses[aclass] + nuclide_aclass_doses[k][aclass]],
             nuclide_aclass_doses, k + 1)

\* effective_dose taking each nuclide's own worst class: the sum over the
\* nuclides of the maximum over the classes
RECURSIVE effective_dose_max_first(_)
effective_dose_max_first(nuclide_aclass_doses) ==
    IF nuclide_aclass_doses = <<>> THEN 0
    ELSE MaxOf({Head(nuclide_aclass_doses)[aclass] :
                    aclass \in pasquill_gifford_classes})
         + effective_dose_max_first(Tail(nuclide_aclass_doses))

\* effective_dose: the accumulator starts as dict.fromkeys(classes, 0)
effective_dose(nuclide_aclass_doses) ==
    LET aclass_doses ==
            AccumulateAclassDoses(
                [aclass \in pasquill_gifford_classes |-> 0],
                nuclide_aclass_doses, 1)
    IN  MaxOf({aclass_doses[aclass] : aclass \in pasquill_gifford_classes})

EffectiveDoseCalls ==
    {[fn |-> "effective_dose", args |-> [nuclide_aclass_doses |-> l],
      out |-> None] : l \in NuclideAclassDoses}

CallEffectiveDose ==
    /\ fcall.fn = "effective_dose"
    /\ fcall.out = None
    /\ fcall' = [fcall EXCEPT !.out =
                    Some(Returned(effective_dose(
                                      fcall.args.nuclide_aclass_doses)))]
    /\ UNCHANGED <<lazyVars, inputVars, constraintVars, modelVars,
                   activityVars, basinVars, calcVars>>

\* sum() of a sequence of numbers
RECURSIVE SumOf(_)
SumOf(seq) == IF seq = <<>> THEN 0 ELSE Head(seq) + SumOf(Tail(seq))

\* One row of the doses matrix, [class, nuclide]: two nuclides, zero doses
\* but in class number a
PeakRow(a, v, w) ==
    [c \in 1..Cardinality(pasquill_gifford_classes) |->
        IF c = a THEN <<v, w>> ELSE <<0, 0>>]
FoodRows == {PeakRow(a, v, w) : a \in {1, 6}, v \in {0, 1}, w \in {0, MaxDose}}

\* np.array of the rows: the shape is [distance, class, nuclide]
Matrix(rows) ==
    [shape |-> <<Len(rows), Cardinality(pasquill_gifford_classes), 2>>,
     data |-> rows]
\* a matrix of one row that lacks the last class
ShortMatrix == [shape |-> <<1, 5, 2>>, data |-> <<SubSeq(PeakRow(1, 1, 1), 1, 5)>>]

DistanceValues == {3, 4, 5}
MinimalDistances == {0, 4, 6}
FoodDistances ==
    {<<>>} \cup {<<x>> : x \in DistanceValues}
           \cup {<<x, y>> : x \in DistanceValues, y \in DistanceValues}
           \cup {<<5, 6, 7>>, <<7, 6, 5>>, <<6, 7, 5>>}
FoodMatrices(n) ==
    CASE n = 0 -> {Matrix(<<>>)}
      [] n = 1 -> {Matrix(<<r>>) : r \in FoodRows}
      [] n = 2 -> {Matrix(<<r, s>>) : r \in FoodRows, s \in FoodRows}
      [] n = 3 -> {Matrix(<<r, s, t>>) :
                      r \in FoodRows, s \in FoodRows, t \in FoodRows}

\* doses[i]: the maximum over the classes of the sum over the nuclides
RowDose(row) == MaxOf({SumOf(row[c]) : c \in DOMAIN row})

\* food_max_distance picking the first of the rows with the maximal dose
food_max_distance_first_row(distances, doses_matrix, minimal_distance) ==
    IF doses_matrix.shape[1] # Len(distances)
    THEN Raised("ValueError: first matrix band")
    ELSE IF doses_matrix.shape[2] # Cardinality(pasquill_gifford_classes)
    THEN Raised("ValueError: second matrix band")
    ELSE IF Len(distances) = 0 THEN Raised("ValueError: zero-size array")
    ELSE
        LET doses == [i \in DOMAIN distances |-> RowDose(doses_matrix.data[i])]
            amax == MaxOf({doses[i] : i \in DOMAIN doses})
            max_dose_idx ==
                CHOOSE i \in DOMAIN doses :
                    /\ doses[i] = amax
                    /\ \A j \in DOMAIN doses : doses[j] = amax => j >= i
            x_max == distances[max_dose_idx]
        IN  Returned(IF x_max < minimal_distance THEN minimal_distance
                     ELSE x_max)

\* food_max_distance: the two shape checks, doses per row, np.amax (which
\* raises ValueError on an array of size 0), the last index holding the
\* maximum (np.where(...)[0][-1]), and the clipping
food_max_distance(distances, doses_matrix, minimal_distance) ==
    IF doses_matrix.shape[1] # Len(distances)
    THEN Raised("ValueError: first matrix band")
    ELSE IF doses_matrix.shape[2] # Cardinality(pasquill_gifford_classes)
    THEN Raised("ValueError: second matrix band")
    ELSE IF Len(distances) = 0 THEN Raised("ValueError: zero-size array")
    ELSE
        LET doses == [i \in DOMAIN distances |-> RowDose(doses_matrix.data[i])]
            amax == MaxOf({doses[i] : i \in DOMAIN doses})
            max_dose_idx ==
                CHOOSE i \in DOMAIN doses :
                    /\ doses[i] = amax
                    /\ \A j \in DOMAIN doses : doses[j] = amax => j <= i
            x_max == distances[max_dose_idx]
        IN  Returned(IF x_max < minimal_distance THEN minimal_distance
                     ELSE x_max)

FoodMaxDistanceCalls ==
    {[fn |-> "food_max_distance",
      args |-> [distances |-> c[1], doses_matrix |-> c[2],
                minimal_distance |-> c[3]],
      out |-> None] :
        c \in UNION {({d} \X FoodMatrices(Len(d)) \X MinimalDistances)
                         \cup {<<d, ShortMatrix, 0>>,
                               <<d, Matrix(<<PeakRow(1, 1, 1),
                                             PeakRow(6, 0, 1)>>), 0>>} :
                     d \in FoodDistances}}

CallFoodMaxDistance ==
    /\ fcall.fn = "food_max_distance"
    /\ fcall.out = None
    /\ fcall' = [fcall EXCEPT !.out =
                    Some(food_max_distance(fcall.args.distances,
                                           fcall.args.doses_matrix,
                                           fcall.args.minimal_distance))]
    /\ UNCHANGED <<lazyVars, inputVars, constraintVars, modelVars,
                   activityVars, basinVars, calcVars>>

\* the two distances at which dispersion_coeff_y changes its branch, m
power_law_limit == 10000
dispersion_limit == 50000

\* The floating-point value dispersion_coeff_y returns, as the expression
\* evaluated and its operands: p_y * pow(distance, q_y) or
\* p_y * pow(10000, q_y - 0.5) * sqrt(distance)
PowerLaw(p_y, q_y, distance) ==
    [expr |-> "p_y * pow(distance, q_y)",
     p_y |-> p_y, q_y |-> q_y, distance |-> distance]
SquareRoot(p_y, q_y, distance) ==
    [expr |-> "p_y * pow(10000, q_y - 0.5) * sqrt(distance)",
     p_y |-> p_y, q_y |-> q_y, distance |-> distance]

\* dispersion_coeff_y with both limits inclusive
dispersion_coeff_y_inclusive(p_y, q_y, distance) ==
    IF distance < 0 THEN Raised("ValueError: negative distance")
    ELSE IF distance <= power_law_limit
    THEN Returned(PowerLaw(p_y, q_y, distance))
    ELSE IF distance <= dispersion_limit
    THEN Returned(SquareRoot(p_y, q_y, distance))
    ELSE Raised("ValueError: distance larger than 50000 m")

dispersion_coeff_y(p_y, q_y, distance) ==
    IF distance < 0 THEN Raised("ValueError: negative distance")
    ELSE IF distance < power_law_limit
    THEN Returned(PowerLaw(p_y, q_y, distance))
    ELSE IF distance < dispersion_limit
    THEN Returned(SquareRoot(p_y, q_y, distance))
    ELSE Raised("ValueError: distance larger than 50000 m")

\* distances on both sides of every comparison of dispersion_coeff_y
DispersionDistances ==
    UNION {{x - 1, x, x + 1} : x \in {0, power_law_limit, dispersion_limit}}
        \cup {-5000, 5000, 30000, 100000}

DispersionCalls ==
    {[fn |-> "dispersion_coeff_y",
      args |-> [p_y |-> p, q_y |-> q, distance |-> x],
      out |-> None] :
        p \in 1..MaxDose, q \in 1..MaxDose, x \in DispersionDistances}

CallDispersionCoeffY ==
    /\ fcall.fn = "dispersion_coeff_y"
    /\ fcall.out = None
    /\ fcall' = [fcall EXCEPT !.out =
                    Some(dispersion_coeff_y(fcall.args.p_y, fcall.args.q_y,
                                            fcall.args.distance))]
    /\ UNCHANGED <<lazyVars, inputVars, constraintVars, modelVars,
                   activityVars, basinVars, calcVars>>

\* _integrate(function, lower_limit, upper_limit): the points at which
\* integrate.quad evaluates the integrand, the centre of the interval and
\* points between the limits, never a limit itself
QuadPoints(lower_limit, upper_limit) ==
    {(lower_limit + upper_limit) \div 2}
        \cup {xi \in lower_limit..upper_limit :
                 lower_limit < xi /\ xi < upper_limit}

\* factor * _integrate(subintegral_function, -half_square_side,
\* half_square_side) of dilution_factor and sedimentation_factor: the
\* arguments distance - xi the integrand passes to dispersion_coeff_y, and
\* the error that leaves the function; factor divides by
\* pow(half_square_side, 2)
Integrate(p_y, q_y, half_square_side, distance) ==
    LET passed == {distance - xi :
                      xi \in QuadPoints(-half_square_side, half_square_side)}
    IN  IF half_square_side = 0
        THEN [raised |-> "ZeroDivisionError", passed |-> {}]
        ELSE [raised |-> IF \E arg \in passed :
                               dispersion_coeff_y(p_y, q_y, arg).raised # "none"
                         THEN "ValueError" ELSE "none",
              passed |-> passed]

\* dilution_factor with the callable dispersion_coeff_y(p_y, q_y, .)
dilution_factor(p_y, q_y, half_square_side, distance) ==
    Integrate(p_y, q_y, half_square_side, distance)

\* sedimentation_factor with the callable dispersion_coeff_y(p_y, q_y, .)
sedimentation_factor(p_y, q_y, half_square_side, distance) ==
    Integrate(p_y, q_y, half_square_side, distance)

\* distances around the half side and around the limit of the dispersion
\* formula, with half sides 0, 1 and 2
FactorCalls ==
    {[fn |-> fn,
      args |-> [p_y |-> p, q_y |-> 1, half_square_side |-> half, distance |-> x],
      out |-> None] :
        fn \in {"dilution_factor", "sedimentation_factor"},
        p \in 1..MaxDose, half \in 0..2,
        x \in (0..3) \cup ((dispersion_limit - 3)..(dispersion_limit + 1))}

CallDilutionFactor ==
    /\ fcall.fn = "dilution_factor"
    /\ fcall.out = None
    /\ fcall' = [fcall EXCEPT !.out =
                    Some(dilution_factor(fcall.args.p_y, fcall.args.q_y,
                             fcall.args.half_square_side, fcall.args.distance))]
    /\ UNCHANGED <<lazyVars, inputVars, constraintVars, modelVars,
                   activityVars, basinVars, calcVars>>

CallSedimentationFactor ==
    /\ fcall.fn = "sedimentation_factor"
    /\ fcall.out = None
    /\ fcall' = [fcall EXCEPT !.out =
                    Some(sedimentation_factor(fcall.args.p_y, fcall.args.q_y,
                             fcall.args.half_square_side, fcall.args.distance))]
    /\ UNCHANGED <<lazyVars, inputVars, constraintVars, modelVars,
                   activityVars, basinVars, calcVars>>

FormulasNext ==
    \/ CallPeriodDose
    \/ CallEffectiveDose
    \/ CallFoodMaxDistance
    \/ CallDispersionCoeffY
    \/ CallDilutionFactor
    \/ CallSedimentationFactor

(***************************************************************************)
(* Basin and BasinsFinder (src/src/basins.py)                              *)
(*                                                                         *)
(* A contour is a sequence of vertices <<x, y>> with integer coordinates,  *)
(* closed implicitly: edge k runs from vertex k to the next vertex, the    *)
(* last edge back to the first vertex.  The map ring is an axis-parallel   *)
(* rectangle, as __get_map_contour builds it.  The shapely predicates are  *)
(* computed on these contours.                                             *)
(***************************************************************************)
\* the map ring of the tests: [[0, 0], [0, 6], [6, 6], [6, 0]]
MapContour == <<<<0, 0>>, <<0, 6>>, <<6, 6>>, <<6, 0>>>>

MinOf(S) == CHOOSE m \in S : \A v \in S : m <= v
Left(ring) == MinOf({ring[k][1] : k \in DOMAIN ring})
Right(ring) == MaxOf({ring[k][1] : k \in DOMAIN ring})
Top(ring) == MinOf({ring[k][2] : k \in DOMAIN ring})
Bottom(ring) == MaxOf({ring[k][2] : k \in DOMAIN ring})

\* the vertex after vertex k of a contour
NextVertex(contour, k) == contour[(k % Len(contour)) + 1]

\* the point lies inside the rectangle or on its ring
InRectangle(p, ring) ==
    /\ Left(ring) <= p[1] /\ p[1] <= Right(ring)
    /\ Top(ring) <= p[2] /\ p[2] <= Bottom(ring)

\* the point lies on the map ring
OnRing(p, ring) ==
    /\ InRectangle(p, ring)
    /\ p[1] \in {Left(ring), Right(ring)} \/ p[2] \in {Top(ring), Bottom(ring)}

\* Edge k of the contour lies on the map ring: both ends are on one side of
\* the rectangle.  An edge of a contour inside the rectangle meets the ring
\* in no other way but at its ends.
EdgeOnRing(contour, k, ring) ==
    LET p == contour[k]
        q == NextVertex(contour, k)
    IN  /\ InRectangle(p, ring) /\ InRectangle(q, ring)
        /\ \/ p[1] = q[1] /\ p[1] \in {Left(ring), Right(ring)}
           \/ p[2] = q[2] /\ p[2] \in {Top(ring), Bottom(ring)}

\* geometry.Polygon(map_contour.coords[:-1]).contains(self.body): the
\* rectangle is convex, so it contains the polygon when it contains the
\* vertices
MapContains(contour, ring) ==
    \A k \in DOMAIN contour : InRectangle(contour[k], ring)

\* body_contour.equals(map_contour): the same point set, every edge of the
\* contour lies on the ring
RingEquals(contour, ring) ==
    /\ MapContains(contour, ring)
    /\ \A k \in DOMAIN contour : EdgeOnRing(contour, k, ring)

\* body_contour.disjoint(map_contour), or the intersection is a Point or a
\* MultiPoint: no edge of the contour lies on the ring
DisjointOrPoints(contour, ring) ==
    \A k \in DOMAIN contour : ~EdgeOnRing(contour, k, ring)

\* A piece of the contour off the ring starts with edge k: the edge is off
\* the ring and begins at a node, a vertex on the ring or the first vertex
\* of the contour
StartsPiece(contour, k, ring) ==
    /\ ~EdgeOnRing(contour, k, ring)
    /\ k = 1 \/ OnRing(contour[k], ring)

\* the last edge of the piece that starts with edge k
PieceEnd(contour, k, ring) ==
    MinOf({j \in k..Len(contour) :
              j = Len(contour) \/ OnRing(NextVertex(contour, j), ring)})

\* the vertices of the piece that starts with edge k
Piece(contour, k, ring) ==
    [i \in 1..(PieceEnd(contour, k, ring) - k + 2) |->
        contour[((k + i - 2) % Len(contour)) + 1]]

RECURSIVE PiecesFrom(_, _, _)
PiecesFrom(contour, k, ring) ==
    IF k > Len(contour) THEN <<>>
    ELSE IF StartsPiece(contour, k, ring)
    THEN <<Piece(contour, k, ring)>> \o PiecesFrom(contour, k + 1, ring)
    ELSE PiecesFrom(contour, k + 1, ring)

\* The overlay returns the pieces of the contour between its nodes.  The
\* first vertex of the contour is a node of the overlay whether or not it
\* lies on the ring; whether the two pieces that meet there come back as
\* two line strings or merged into one is the library's choice.
RingStartOutcomes == {"split", "merged"}

\* two pieces meet at the first vertex of the contour, off the ring
MeetAtStart(contour, ring) ==
    /\ ~OnRing(contour[1], ring)
    /\ ~EdgeOnRing(contour, 1, ring)
    /\ ~EdgeOnRing(contour, Len(contour), ring)

\* body_contour.difference(map_contour): the geometry's type and its parts
Difference(contour, ring, at_start) ==
    LET split == PiecesFrom(contour, 1, ring)
        pieces ==
            IF at_start = "merged" /\ MeetAtStart(contour, ring)
            THEN <<split[Len(split)] \o Tail(split[1])>>
                     \o SubSeq(split, 2, Len(split) - 1)
            ELSE split
    IN  [geom_type |-> IF Len(pieces) = 1 THEN "LineString"
                       ELSE "MultiLineString",
         geoms |-> pieces]

\* no geometry: the constructor raised
NoGeometry == [geom_type |-> "none", geoms |-> <<>>]

\* geometry.LinearRing(contour)
LinearRing(contour) ==
    [geom_type |-> "LinearRing", geoms |-> <<contour \o <<contour[1]>>>>]

\* Basin.__init__: the object basinCall, or the ValueError "map doesn't contain
\* basin"
Basin(contour, map_contour, at_start) ==
    IF map_contour = None
    THEN [raised |-> "none", body |-> contour, shoreline |-> LinearRing(contour)]
    ELSE IF ~MapContains(contour, map_contour)
            \/ RingEquals(contour, map_contour)
    THEN [raised |-> "ValueError", body |-> contour, shoreline |-> NoGeometry]
    ELSE IF DisjointOrPoints(contour, map_contour)
    THEN [raised |-> "none", body |-> contour, shoreline |-> LinearRing(contour)]
    ELSE [raised |-> "none", body |-> contour,
          shoreline |-> Difference(contour, map_contour, at_start)]

\* Basin.shoreline_segments_count
shoreline_segments_count(basin) ==
    IF basin.shoreline.geom_type # "MultiLineString" THEN 1
    ELSE Len(basin.shoreline.geoms)

\* Basin.is_closed
is_closed(basin) == basin.shoreline.geom_type = "LinearRing"

\* the point, given in half units, lies on edge k of the contour
OnEdge(contour, k, p) ==
    LET a == <<2 * contour[k][1], 2 * contour[k][2]>>
        b == <<2 * NextVertex(contour, k)[1], 2 * NextVertex(contour, k)[2]>>
    IN  /\ (p[1] - a[1]) * (b[2] - a[2]) = (p[2] - a[2]) * (b[1] - a[1])
        /\ MinOf({a[1], b[1]}) <= p[1] /\ p[1] <= MaxOf({a[1], b[1]})
        /\ MinOf({a[2], b[2]}) <= p[2] /\ p[2] <= MaxOf({a[2], b[2]})

\* the horizontal ray from the point to the right crosses edge k
RayCrosses(contour, k, p) ==
    LET a == <<2 * contour[k][1], 2 * contour[k][2]>>
        b == <<2 * NextVertex(contour, k)[1], 2 * NextVertex(contour, k)[2]>>
        lhs == (p[1] - a[1]) * (b[2] - a[2])
        rhs == (p[2] - a[2]) * (b[1] - a[1])
    IN  /\ (a[2] > p[2]) # (b[2] > p[2])
        /\ IF b[2] > a[2] THEN lhs < rhs ELSE lhs > rhs

\* basin.body.contains(point): the point lies in the interior of the
\* polygon, not on its boundary
BodyContains(contour, p) ==
    /\ \A k \in DOMAIN contour : ~OnEdge(contour, k, p)
    /\ Cardinality({k \in DOMAIN contour : RayCrosses(contour, k, p)}) % 2 = 1

\* the map of the tests (MockMap): 4 x 4 pixels, Affine.scale(2.0, 2.0)
MapWidth == 4
MapHeight == 4
MapScale == 2

\* self.map.img.xy(row, col, offset="ul") of a pixel vertex (col, row)
PixelToCoord(pix_vertice) == <<MapScale * pix_vertice[1], MapScale * pix_vertice[2]>>

\* BasinsFinder.__get_map_contour
GetMapContour ==
    LET left == PixelToCoord(<<0, 0>>)[1]
        top == PixelToCoord(<<0, 0>>)[2]
        right == PixelToCoord(<<MapWidth - 1, MapHeight - 1>>)[1]
        bottom == PixelToCoord(<<MapWidth - 1, MapHeight - 1>>)[2]
    IN  <<<<left, top>>, <<left, bottom>>, <<right, bottom>>, <<right, top>>>>

\* the vertices of one pixel contour as coordinates
CoordCnt(pix_cnt) == [k \in DOMAIN pix_cnt |-> PixelToCoord(pix_cnt[k])]

\* __calc_basins from the k-th pixel contour on.  The contours are taken as
\* cv.approxPolyDP returns them.  The finder's state: the basins list and,
\* as history, what became of every contour.
RECURSIVE CalcBasinsFrom(_, _, _, _)
CalcBasinsFrom(pix_cnts, k, at_start, st) ==
    IF k > Len(pix_cnts) THEN st
    ELSE IF Len(pix_cnts[k]) < 3
    THEN CalcBasinsFrom(pix_cnts, k + 1, at_start,
                        [st EXCEPT !.fate = Append(@, "short")])
    ELSE
        LET basin == Basin(CoordCnt(pix_cnts[k]), GetMapContour, at_start)
        IN  IF basin.raised = "none"
            THEN CalcBasinsFrom(pix_cnts, k + 1, at_start,
                                [st EXCEPT !.basins = Append(@, basin),
                                           !.fate = Append(@, "added")])
            ELSE CalcBasinsFrom(pix_cnts, k + 1, at_start,
                                [st EXCEPT !.fate = Append(@, "logged")])

\* __calc_basins giving up at the first contour Basin rejects
RECURSIVE CalcBasinsAborting(_, _, _, _)
CalcBasinsAborting(pix_cnts, k, at_start, st) ==
    IF k > Len(pix_cnts) THEN st
    ELSE IF Len(pix_cnts[k]) < 3
    THEN CalcBasinsAborting(pix_cnts, k + 1, at_start,
                            [st EXCEPT !.fate = Append(@, "short")])
    ELSE
        LET basin == Basin(CoordCnt(pix_cnts[k]), GetMapContour, at_start)
        IN  IF basin.raised = "none"
            THEN CalcBasinsAborting(pix_cnts, k + 1, at_start,
                                    [st EXCEPT !.basins = Append(@, basin),
                                               !.fate = Append(@, "added")])
            ELSE [st EXCEPT !.fate = Append(@, "raised"),
                            !.raised = basin.raised]

\* BasinsFinder.__init__ that lets the ValueError of Basin through
BasinsFinderAborting(pix_cnts, at_start) ==
    CalcBasinsAborting(pix_cnts, 1, at_start,
                       [pix_cnts |-> pix_cnts, at_start |-> at_start,
                        basins |-> <<>>, fate |-> <<>>, raised |-> "none"])

\* BasinsFinder.__init__: self.__basins = [] and the loop over the contours
BasinsFinder(pix_cnts, at_start) ==
    CalcBasinsFrom(pix_cnts, 1, at_start,
                   [pix_cnts |-> pix_cnts, at_start |-> at_start,
                    basins |-> <<>>, fate |-> <<>>, raised |-> "none"])

\* the contour started at each of its vertices in turn
Rotations(contour) ==
    {[i \in DOMAIN contour |-> contour[((i + r - 1) % Len(contour)) + 1]] :
        r \in 0..(Len(contour) - 1)}

\* Contours of the Basin tests: inner, touching, touching in few points,
\* adjoining, fitting, overlapping, adjoining few times; further a square
\* adjoining the bottom of the map, a quadrilateral adjoining two sides and
\* touching a third, and a triangle partly outside the map
BaseContours ==
    {<<<<2, 2>>, <<2, 4>>, <<4, 4>>, <<4, 2>>>>,
     <<<<0, 2>>, <<2, 2>>, <<2, 4>>>>,
     <<<<0, 2>>, <<4, 2>>, <<4, 6>>>>,
     <<<<0, 0>>, <<0, 4>>, <<4, 0>>>>,
     <<<<0, 0>>, <<0, 6>>, <<6, 6>>, <<6, 0>>>>,
     <<<<-1, -1>>, <<-1, 7>>, <<7, 7>>, <<7, -1>>>>,
     <<<<0, 2>>, <<2, 2>>, <<2, 0>>, <<6, 0>>, <<6, 4>>, <<4, 4>>, <<4, 6>>,
       <<0, 6>>>>,
     <<<<2, 4>>, <<4, 4>>, <<4, 6>>, <<2, 6>>>>,
     <<<<0, 0>>, <<0, 2>>, <<2, 6>>, <<2, 0>>>>,
     <<<<2, 2>>, <<7, 2>>, <<4, 4>>>>}
Contours == UNION {Rotations(contour) : contour \in BaseContours}

NoBasin == [raised |-> "pending", body |-> <<>>, shoreline |-> NoGeometry]
NoBasinCall ==
    [state |-> "unused", contour |-> <<>>, map_contour |-> MapContour,
     at_start |-> "split", basin |-> NoBasin]
BasinCalls ==
    {[state |-> "pending", contour |-> contour, map_contour |-> MapContour,
      at_start |-> at_start, basin |-> NoBasin] :
        contour \in Contours, at_start \in RingStartOutcomes}

\* Basin(contour=..., map_contour=...)
BuildBasin ==
    /\ basinCall.state = "pending"
    /\ basinCall' = [basinCall EXCEPT
                    !.state = "done",
                    !.basin = Basin(basinCall.contour, basinCall.map_contour,
                                    basinCall.at_start)]
    /\ UNCHANGED <<finder, lastGet>>
    /\ UNCHANGED <<lazyVars, inputVars, constraintVars, modelVars,
                   activityVars, formulaVars, calcVars>>

\* Pixel contours (col, row) as cv.approxPolyDP hands them over: those of
\* the finder tests (square, triangle, clipped, small, all is basin, the two
\* of test_multiple_basins), a large triangle that overlaps the square and
\* a square adjoining the bottom of the map
PixCnts ==
    {<<<<1, 1>>, <<2, 1>>, <<2, 2>>, <<1, 2>>>>,
     <<<<0, 1>>, <<2, 1>>, <<2, 3>>>>,
     <<<<0, 0>>, <<0, 2>>, <<2, 0>>>>,
     <<<<1, 1>>, <<2, 1>>>>,
     <<<<0, 0>>, <<0, 3>>, <<3, 3>>, <<3, 0>>>>,
     <<<<2, 0>>, <<3, 0>>, <<3, 1>>>>,
     <<<<0, 2>>, <<0, 3>>, <<1, 3>>>>,
     <<<<0, 0>>, <<0, 3>>, <<3, 0>>>>,
     <<<<1, 2>>, <<2, 2>>, <<2, 3>>, <<1, 3>>>>}
PixCntLists ==
    {<<>>} \cup {<<c>> : c \in PixCnts}
           \cup {<<c, d>> : c \in PixCnts, d \in PixCnts}
           \cup {<<c, <<<<0, 0>>, <<0, 3>>, <<3, 3>>, <<3, 0>>>>, d>> :
                    c \in PixCnts, d \in PixCnts}

\* query points of get_basin, in half units: (3, 3), (5.5, 0.5),
\* (0.5, 5.5), (1, 1), (2, 2), (2.5, 2.5), (2.5, 5), (7, 7)
Coos == {<<6, 6>>, <<11, 1>>, <<1, 11>>, <<2, 2>>, <<4, 4>>, <<5, 5>>,
         <<5, 10>>, <<14, 14>>}

NoGet == [coo |-> <<0, 0>>, called |-> FALSE, ret |-> None]

\* get_basin returning the last basin whose body contains the point
RECURSIVE GetBasinLast(_, _, _)
GetBasinLast(basins, k, coo) ==
    IF k > Len(basins) THEN None
    ELSE LET later == GetBasinLast(basins, k + 1, coo)
         IN  IF later # None THEN later
             ELSE IF BodyContains(basins[k].body, coo) THEN Some(basins[k])
             ELSE None

\* the loop of get_basin from the k-th basin on
RECURSIVE GetBasinFrom(_, _, _)
GetBasinFrom(basins, k, coo) ==
    IF k > Len(basins) THEN None
    ELSE IF BodyContains(basins[k].body, coo) THEN Some(basins[k])
    ELSE GetBasinFrom(basins, k + 1, coo)

\* BasinsFinder.get_basin(coo); the point is in the map's CRS already
GetBasin(coo) ==
    /\ lastGet' = [coo |-> coo, called |-> TRUE,
                   ret |-> GetBasinFrom(finder.basins, 1, coo)]
    /\ UNCHANGED <<basinCall, finder>>
    /\ UNCHANGED <<lazyVars, inputVars, constraintVars, modelVars,
                   activityVars, formulaVars, calcVars>>

BasinsNext ==
    \/ BuildBasin
    \/ \E coo \in Coos : GetBasin(coo)

(***************************************************************************)
(* calculate.py (src/calculate.py)                                         *)
(*                                                                         *)
(* calculate_dose sums the model's results over the non-zero cells of one  *)
(* activity map.  The raster is the matrix activities[j][i] of line 171    *)
(* (rows j, columns i), with the value of distance(point, cell centre)     *)
(* given per cell.  The accumulators are kept as the list of the cells     *)
(* whose results were added, the sum itself being left symbolic.           *)
(***************************************************************************)
MaxCells == 4

\* _model_input["square_side"]
SquareSide == 2

\* one raster cell: its activity (0 or positive) and the distance from the
\* receptor point to its centre; a zero cell's distance is never computed
DoseCells ==
    {[activity |-> 0, distance |-> 1]} \cup
    {[activity |-> 1, distance |-> d] : d \in Distances}

\* the rasters: img.height rows of img.width cells
DoseRasters ==
    UNION {UNION {[1..h -> [1..w -> DoseCells]] : w \in 1..(MaxCells \div h)} :
              h \in 1..MaxCells}

\* the k-th (i, j) of the two loops: i runs over range(img.width) and, for
\* each i, j over range(img.height)
LoopCell(raster, k) ==
    [i |-> ((k - 1) \div Len(raster)) + 1, j |-> ((k - 1) % Len(raster)) + 1]

\* np.count_nonzero(activities)
CountNonzero(raster) ==
    Cardinality({c \in (1..Len(raster)) \X (1..Len(raster[1])) :
                    raster[c[1]][c[2]].activity # 0})

\* full_inp: the copy of inp with the cell's distance and specific activity
FullInput(cell, nuclide) ==
    Some(MkInput(cell.distance, SquareSide, {nuclide}, "none"))

\* model.calculate(full_inp) on the Model of line 169: what it returns or
\* raises
ModelCalculate(i) ==
    IF ~ValidateInput(i) THEN "False" ELSE CalculateBody(EmptyDict).outcome

\* lines 186-234 from the k-th cell on; st holds the cells handed to
\* model.calculate with what came of each, the cells added to the
\* accumulators and the exception that left the loop
RECURSIVE DoseLoopFrom(_, _, _, _)
DoseLoopFrom(raster, nuclide, k, st) ==
    IF k > Len(raster) * Len(raster[1]) THEN st
    ELSE LET c == LoopCell(raster, k)
             cell == raster[c.j][c.i]
         IN  IF cell.activity = 0
             THEN DoseLoopFrom(raster, nuclide, k + 1, st)
             ELSE LET out == ModelCalculate(FullInput(cell, nuclide))
                      added == IF out = "True" THEN Append(st.added, c)
                               ELSE st.added
                      after == [calls |-> Append(st.calls,
                                     [cell |-> c, outcome |-> out,
                                      before |-> st.added, after |-> added]),
                                added |-> added,
                                raised |-> IF out \in {"True", "False"}
                                           THEN "none" ELSE out]
                  IN  IF after.raised # "none" THEN after
                      ELSE DoseLoopFrom(raster, nuclide, k + 1, after)

NoDose == [raised |-> "unused", calls |-> <<>>, added |-> <<>>, divisor |-> 0]

\* calculate_dose(actmap, point): the loop, then the division of the
\* accumulated depletions by the number of non-zero cells
calculate_dose(raster, nuclide) ==
    LET st == DoseLoopFrom(raster, nuclide, 1,
                  [calls |-> <<>>, added |-> <<>>, raised |-> "none"])
        nonzero == CountNonzero(raster)
    IN  IF st.raised # "none"
        THEN [raised |-> st.raised, calls |-> st.calls, added |-> st.added,
              divisor |-> 0]
        ELSE IF nonzero = 0
        THEN \* line 237: 0 / 0
             [raised |-> "ZeroDivisionError", calls |-> st.calls,
              added |-> st.added, divisor |-> 0]
        ELSE [raised |-> "none", calls |-> st.calls, added |-> st.added,
              divisor |-> nonzero]

NoDoseCall == [state |-> "unused", raster |-> <<>>, nuclide |-> "", out |-> NoDose]
DoseCalls ==
    {[state |-> "pending", raster |-> raster, nuclide |-> nuclide, out |-> NoDose] :
        raster \in DoseRasters, nuclide \in Nuclides}

CalculateDose ==
    /\ doseCall.state = "pending"
    /\ doseCall' = [doseCall EXCEPT
           !.state = "done",
           !.out = calculate_dose(doseCall.raster, doseCall.nuclide)]
    /\ UNCHANGED pointsCall
    /\ UNCHANGED <<lazyVars, inputVars, constraintVars, modelVars,
                   activityVars, formulaVars, basinVars>>

MaxPoints == 2
MaxMaps == 2

\* the activity maps handed over: a nuclide and a raster of one cell
PointMaps == {[nuclide |-> nuclide, activity |-> activity] :
                 nuclide \in Nuclides, activity \in {0, 1}}

\* the special points of the input file: a name and, in place of lon and
\* lat, the distance from the point to the cell of every map
SpecialPoints == {[name |-> name, distance |-> d] :
                     name \in {"p", "q"}, d \in {1, MaxDistance}}

SeqsUpTo(S, n) == UNION {[1..k -> S] : k \in 0..n}

\* activities and distances as calculate_dose(act_map, coo) finds them
PointRaster(act_map, point) ==
    << << [activity |-> act_map.activity, distance |-> point.distance] >> >>

HeaderRow == [kind |-> "header", point |-> 0, map |-> 0, name |-> "", nuclide |-> ""]

\* the k-th pass through the two loops of lines 382-411: point_data runs
\* over inp and, for each point, act_map over activity_maps
PointsPair(activity_maps, k) ==
    [point |-> ((k - 1) \div Len(activity_maps)) + 1,
     map |-> ((k - 1) % Len(activity_maps)) + 1]

\* lines 382-414 from the k-th pass on: the rows handed to the writer, the
\* exception that left the function and whether f.close() was reached
RECURSIVE SpecialPointsFrom(_, _, _, _)
SpecialPointsFrom(activity_maps, points, k, st) ==
    IF k > Len(points) * Len(activity_maps) THEN [st EXCEPT !.closed = TRUE]
    ELSE LET pair == PointsPair(activity_maps, k)
             act_map == activity_maps[pair.map]
             point_data == points[pair.point]
             dose == calculate_dose(PointRaster(act_map, point_data),
                                    act_map.nuclide)
         IN  IF dose.raised # "none" THEN [st EXCEPT !.raised = dose.raised]
             ELSE SpecialPointsFrom(activity_maps, points, k + 1,
                      [st EXCEPT !.rows = Append(@,
                          [kind |-> "dose", point |-> pair.point,
                           map |-> pair.map, name |-> point_data.name,
                           nuclide |-> act_map.nuclide])])

\* calculate_doses_in_special_points(activity_maps, inp)
calculate_doses_in_special_points(activity_maps, points) ==
    SpecialPointsFrom(activity_maps, points, 1,
        [rows |-> <<HeaderRow>>, raised |-> "none", closed |-> FALSE])

NoRows == [rows |-> <<>>, raised |-> "unused", closed |-> FALSE]
NoPointsCall ==
    [state |-> "unused", activity_maps |-> <<>>, points |-> <<>>, out |-> NoRows]
PointsCalls ==
    {[state |-> "pending", activity_maps |-> activity_maps, points |-> points,
      out |-> NoRows] :
        activity_maps \in SeqsUpTo(PointMaps, MaxMaps),
        points \in SeqsUpTo(SpecialPoints, MaxPoints)}

CalculateDosesInSpecialPoints ==
    /\ pointsCall.state = "pending"
    /\ pointsCall' = [pointsCall EXCEPT
           !.state = "done",
           !.out = calculate_doses_in_special_points(
                       pointsCall.activity_maps, pointsCall.points)]
    /\ UNCHANGED doseCall
    /\ UNCHANGED <<lazyVars, inputVars, constraintVars, modelVars,
                   activityVars, formulaVars, basinVars>>

CalculateNext == CalculateDose \/ CalculateDosesInSpecialPoints

(***************************************************************************)
(* Specifications                                                          *)
(***************************************************************************)
\* LazyEvaluation.__init__ for one of the formulas; the other subsystems
\* are not used
InitLazy ==
    /\ formula \in Formulas
    /\ results = EmptyDict
    /\ invocations = NoInvocations
    /\ called = {}
    /\ lastCall = NoCall
    /\ inp = InputNew
    /\ lastSet = NoSet
    /\ constraints = <<>>
    /\ lastValidate = None
    /\ levals = EmptyDict
    /\ lastCalc = None
    /\ grid = None
    /\ img = None
    /\ raster_factor = None
    /\ phys = None
    /\ hist = None
    /\ fcall = None
    /\ basinCall = None
    /\ finder = None
    /\ lastGet = None
    /\ doseCall = None
    /\ pointsCall = None

SpecLazy == InitLazy /\ [][LazyNext]_vars

\* Input.__init__; the other subsystems are not used
InitInput ==
    /\ formula = "one"
    /\ results = EmptyDict
    /\ invocations = NoInvocations
    /\ called = {}
    /\ lastCall = NoCall
    /\ inp = InputNew
    /\ lastSet = NoSet
    /\ constraints = <<>>
    /\ lastValidate = None
    /\ levals = EmptyDict
    /\ lastCalc = None
    /\ grid = None
    /\ img = None
    /\ raster_factor = None
    /\ phys = None
    /\ hist = None
    /\ fcall = None
    /\ basinCall = None
    /\ finder = None
    /\ lastGet = None
    /\ doseCall = None
    /\ pointsCall = None

SpecInput == InitInput /\ [][InputNext]_vars

\* IConstraints() or DefaultConstraints(known_nuclides), nothing validated
InitConstraints ==
    /\ formula = "one"
    /\ results = EmptyDict
    /\ invocations = NoInvocations
    /\ called = {}
    /\ lastCall = NoCall
    /\ inp = InputNew
    /\ lastSet = NoSet
    /\ constraints \in {<<>>, DefaultConstraints}
    /\ lastValidate = None
    /\ levals = EmptyDict
    /\ lastCalc = None
    /\ grid = None
    /\ img = None
    /\ raster_factor = None
    /\ phys = None
    /\ hist = None
    /\ fcall = None
    /\ basinCall = None
    /\ finder = None
    /\ lastGet = None
    /\ doseCall = None
    /\ pointsCall = None

SpecConstraints == InitConstraints /\ [][ConstraintsNext]_vars

\* Model.__init__: default constraints over the reference's nuclides, no
\* lazy node yet
InitModel ==
    /\ formula = "one"
    /\ results = EmptyDict
    /\ invocations = NoInvocations
    /\ called = {}
    /\ lastCall = NoCall
    /\ inp = InputNew
    /\ lastSet = NoSet
    /\ constraints = DefaultConstraints
    /\ lastValidate = None
    /\ levals = EmptyDict
    /\ lastCalc = None
    /\ grid = None
    /\ img = None
    /\ raster_factor = None
    /\ phys = None
    /\ hist = None
    /\ fcall = None
    /\ basinCall = None
    /\ finder = None
    /\ lastGet = None
    /\ doseCall = None
    /\ pointsCall = None

SpecModel == InitModel /\ [][ModelNext]_vars

\* ActivityMap.__init__: the image of __init_img with all codes 0 and no
\* raster factor, or no map when __init_img raised
InitActivity ==
    /\ formula = "one"
    /\ results = EmptyDict
    /\ invocations = NoInvocations
    /\ called = {}
    /\ lastCall = NoCall
    /\ inp = InputNew
    /\ lastSet = NoSet
    /\ constraints = <<>>
    /\ lastValidate = None
    /\ levals = EmptyDict
    /\ lastCalc = None
    /\ grid \in {InitImg(c.ul, c.lr, c.step) : c \in Constructions}
    /\ img = [c \in RasterCells(grid) |-> 0]
    /\ raster_factor = None
    /\ phys = [c \in RasterCells(grid) |-> 0]
    /\ hist = NoHist
    /\ fcall = None
    /\ basinCall = None
    /\ finder = None
    /\ lastGet = None
    /\ doseCall = None
    /\ pointsCall = None

SpecActivity == InitActivity /\ [][ActivityNext]_vars

\* One call of one formula on arguments of the bounded sets; the other
\* subsystems are not used
InitFormulas ==
    /\ formula = "one"
    /\ results = EmptyDict
    /\ invocations = NoInvocations
    /\ called = {}
    /\ lastCall = NoCall
    /\ inp = InputNew
    /\ lastSet = NoSet
    /\ constraints = <<>>
    /\ lastValidate = None
    /\ levals = EmptyDict
    /\ lastCalc = None
    /\ grid = None
    /\ img = None
    /\ raster_factor = None
    /\ phys = None
    /\ hist = None
    /\ basinCall = None
    /\ finder = None
    /\ lastGet = None
    /\ doseCall = None
    /\ pointsCall = None
    /\ \/ fcall \in PeriodDoseCalls
       \/ fcall \in EffectiveDoseCalls
       \/ fcall \in FoodMaxDistanceCalls
       \/ fcall \in DispersionCalls
       \/ fcall \in FactorCalls

SpecFormulas == InitFormulas /\ [][FormulasNext]_vars

\* Either one Basin is about to be basinCall from a contour of the bounded set,
\* or a BasinsFinder has been constructed from a list of pixel contours
InitBasins ==
    /\ formula = "one"
    /\ results = EmptyDict
    /\ invocations = NoInvocations
    /\ called = {}
    /\ lastCall = NoCall
    /\ inp = InputNew
    /\ lastSet = NoSet
    /\ constraints = <<>>
    /\ lastValidate = None
    /\ levals = EmptyDict
    /\ lastCalc = None
    /\ grid = None
    /\ img = None
    /\ raster_factor = None
    /\ phys = None
    /\ hist = None
    /\ fcall = None
    /\ lastGet = NoGet
    /\ doseCall = None
    /\ pointsCall = None
    /\ \/ /\ basinCall \in BasinCalls
          /\ finder = BasinsFinder(<<>>, "split")
       \/ /\ basinCall = NoBasinCall
          /\ finder \in {BasinsFinder(pix_cnts, at_start) :
                            pix_cnts \in PixCntLists,
                            at_start \in RingStartOutcomes}

SpecBasins == InitBasins /\ [][BasinsNext]_vars

\* one call of calculate_dose or of calculate_doses_in_special_points, its
\* arguments drawn; Model(_reference) holds the default constraints
InitCalculate ==
    /\ formula = "one"
    /\ results = EmptyDict
    /\ invocations = NoInvocations
    /\ called = {}
    /\ lastCall = NoCall
    /\ inp = InputNew
    /\ lastSet = NoSet
    /\ constraints = DefaultConstraints
    /\ lastValidate = None
    /\ levals = EmptyDict
    /\ lastCalc = None
    /\ grid = None
    /\ img = None
    /\ raster_factor = None
    /\ phys = None
    /\ hist = None
    /\ fcall = None
    /\ basinCall = None
    /\ finder = None
    /\ lastGet = None
    /\ \/ doseCall \in DoseCalls /\ pointsCall = NoPointsCall
       \/ doseCall = NoDoseCall /\ pointsCall \in PointsCalls

SpecCalculate == InitCalculate /\ [][CalculateNext]_vars

(***************************************************************************)
(* Claims                                                                  *)
(***************************************************************************)

\* C3: for one node and any sequence of calls, the formula has run exactly
\* once for every argument tuple the node answered and never for any other;
\* a repeated call returns the stored result, which is the formula's value
\* for the unpacked tuple.
C3_FormulaOncePerTuple ==
    /\ \A t \in ArgTuples : invocations[t] = IF t \in called THEN 1 ELSE 0
    /\ lastCall.outcome = "ok" =>
          /\ lastCall.params \in DOMAIN results
          /\ lastCall.ret = results[lastCall.params]
          /\ lastCall.ret = FormulaValue(formula, lastCall.params)

\* C3 witness: a repeated call was answered from the table, after calls
\* with another tuple, and the formula ran once for it
C3_Witness ==
    /\ lastCall.hit
    /\ invocations[lastCall.params] = 1
    /\ Cardinality(called) >= 2

\* C4, state part: nothing is evaluated at construction; the table's keys
\* are exactly the tuples the node answered, each mapped to the formula's
\* value for it
C4_TableMatchesCalls ==
    /\ lastCall.outcome = "none" =>
          results = EmptyDict /\ \A t \in ArgTuples : invocations[t] = 0
    /\ DOMAIN results = called
    /\ \A t \in DOMAIN results : results[t] = FormulaValue(formula, t)

\* C4, step part: an entry once present is neither removed nor changed
C4_EntriesKept ==
    \A t \in DOMAIN results : t \in DOMAIN results' /\ results'[t] = results[t]

\* C4: a LazyEvaluation evaluates nothing at construction, its table holds
\* exactly the answered tuples with the formula's values, and entries are
\* never removed or changed by later calls.
C4_ResultsTable == []C4_TableMatchesCalls /\ [][C4_EntriesKept]_vars

\* C4 witness: three entries are in the table and a later call hit one
C4_Witness == Cardinality(DOMAIN results) >= 3 /\ lastCall.hit

\* what a setter call must have done to the slots, given its outcome
C5_SetterStep ==
    LET c == lastSet' IN
    /\ c.outcome \in {"ok", "ValueError"}
    /\ (c.outcome = "ValueError") = ~InputValidator(c.field, Unwrap(c.value))
    /\ c.outcome = "ValueError" => inp' = inp
    /\ c.outcome = "ok" =>
          IF c.field = "specific_activities"
          THEN /\ \A f \in ScalarFields : inp'[f] = inp[f]
               /\ DOMAIN SpecificActivities(inp') =
                     DOMAIN SpecificActivities(inp) \cup {c.key}
               /\ SpecificActivities(inp')[c.key] = c.value
               /\ \A n \in DOMAIN SpecificActivities(inp) \ {c.key} :
                     SpecificActivities(inp')[n] = SpecificActivities(inp)[n]
          ELSE /\ inp'[c.field] = c.value
               /\ \A f \in Fields \ {c.field} : inp'[f] = inp[f]

\* C5: every Input setter validates before storing: an invalid value raises
\* ValueError and leaves every slot as it was, a valid value replaces the
\* slot's value and nothing else.
C5_SetterValidatesBeforeStoring == [][C5_SetterStep]_vars

\* C5 witness: a setter failed on a slot that already held a value, which
\* it still holds
C5_Witness ==
    /\ lastSet.outcome = "ValueError"
    /\ lastSet.field = "distance"
    /\ inp["distance"] = Some(1)

\* C6: after any sequence of setter calls, Input.initialized() is true iff
\* each of the nine fields holds a non-None value and a specific activity
\* has been added.
C6_InitializedIff ==
    InputInitialized(inp) =
        (/\ \A f \in ScalarFields : inp[f] # None
         /\ "specific_activities" \in lastSet.done)

\* C6 witness: the input is initialized, also after a failing setter call
C6_Witness == InputInitialized(inp) /\ lastSet.outcome = "ValueError"


\* the validators of a list that return false on an input
C7_Failing(cs, i) ==
    {k \in 1..Len(cs) : ~ValidatorResult(cs[k].validator, i)}

\* C7: validate(input) invokes the validators in the order they were added,
\* each at most once, up to and including the first one that returns false,
\* and raises with that constraint's message; with no failing validator it
\* invokes all of them and raises nothing.
C7_ValidateStopsAtFirstFailure ==
    lastValidate # None =>
        LET v == Unwrap(lastValidate)
            fails == C7_Failing(v.cs, v.inp)
            first == CHOOSE k \in fails : \A j \in fails : k <= j
        IN  IF fails = {}
            THEN v.calls = [k \in 1..Len(v.cs) |-> k] /\ v.err = None
            ELSE v.calls = [k \in 1..first |-> k] /\ v.err = Some(v.cs[first].msg)

\* C7 witness: a validate() raised at the second constraint or later and
\* left a later constraint uninvoked
C7_Witness ==
    /\ lastValidate # None
    /\ Unwrap(lastValidate).err # None
    /\ Len(Unwrap(lastValidate).calls) >= 2
    /\ Len(Unwrap(lastValidate).calls) < Len(Unwrap(lastValidate).cs)

\* C8: DefaultConstraints.validate succeeds iff distance <= 50000 and
\* distance > square_side/2 and every nuclide is known; otherwise it raises
\* for the first violated of the three, in that order.
C8_DefaultConstraints ==
    (lastValidate # None /\ Len(Unwrap(lastValidate).cs) = 3
        /\ Unwrap(lastValidate).cs[1].validator = "max_distance") =>
        LET v == Unwrap(lastValidate)
            d == Unwrap(v.inp["distance"])
            side == Unwrap(v.inp["square_side"])
            nucs == DOMAIN SpecificActivities(v.inp)
            c1 == d <= 50000
            c2 == 2 * d > side
            c3 == nucs \subseteq {"Cs-137", "Sr-90"}
        IN  /\ (v.err = None) = (c1 /\ c2 /\ c3)
            /\ ~c1 => v.err = Some(<<"exceeds the maximum", 1>>)
            /\ (c1 /\ ~c2) => v.err = Some(<<"should exceed half side", 2>>)
            /\ (c1 /\ c2 /\ ~c3) => v.err = Some(<<"unknown nuclide", 3>>)

\* C8 witness: the default constraints accepted an input at distance 50000
C8_Witness ==
    /\ lastValidate # None
    /\ Unwrap(lastValidate).cs = DefaultConstraints
    /\ Unwrap(lastValidate).err = None
    /\ Unwrap(lastValidate).inp["distance"] = Some(50000)

\* an input calculate() must reject: None, a field unset, no specific
\* activity, or one of the default constraints violated
C9_Rejected(i) ==
    \/ i = None
    \/ \E f \in ScalarFields : Unwrap(i)[f] = None
    \/ DOMAIN SpecificActivities(Unwrap(i)) = {}
    \/ Unwrap(Unwrap(i)["distance"]) > 50000
    \/ 2 * Unwrap(Unwrap(i)["distance"]) <= Unwrap(Unwrap(i)["square_side"])
    \/ ~(DOMAIN SpecificActivities(Unwrap(i)) \subseteq {"Cs-137", "Sr-90"})

\* C9, state part: a rejected input makes calculate() return False
C9_RejectedReturnsFalse ==
    (lastCalc # None /\ C9_Rejected(Unwrap(lastCalc).inp)) =>
        Unwrap(lastCalc).outcome = "False"

\* C9, step part: a calculate() on a rejected input creates no lazy node
\* and changes no results table
C9_RejectedKeepsLevals ==
    (lastCalc' # lastCalc /\ C9_Rejected(Unwrap(lastCalc').inp)) => levals' = levals

\* C9: calculate(input) returns False without raising when the input is
\* None, not initialized or violates a constraint, and then creates no lazy
\* node and evaluates no formula.
C9_CalculateRejects == []C9_RejectedReturnsFalse /\ [][C9_RejectedKeepsLevals]_vars

\* C9 witness: an initialized input violating a constraint was rejected
C9_Witness ==
    /\ lastCalc # None
    /\ Unwrap(lastCalc).inp # None
    /\ InputInitialized(Unwrap(Unwrap(lastCalc).inp))
    /\ C9_Rejected(Unwrap(lastCalc).inp)
    /\ Unwrap(lastCalc).outcome = "False"

\* C10: for every input that is initialized and passes all constraints,
\* calculate() builds the lazy graph, fires the top-level acute dose, whose
\* result is then in the node's table, and returns True.
C10_ValidInputCalculates ==
    (lastCalc # None /\ ~C9_Rejected(Unwrap(lastCalc).inp)) =>
        /\ Unwrap(lastCalc).outcome = "True"
        /\ "_ed_acute" \in DOMAIN levals
        /\ <<>> \in DOMAIN levals["_ed_acute"]

\* C1: after any sequence of add_basin calls every cell's code c is within
\* 0..65535, c / raster_factor equals the sum of the contributions painted
\* into the cell up to the truncations made (one code unit for each store
\* and rescale), and no store ever went above the uint16 range.
C1_CodesMatchContributions ==
    /\ ~hist.overflow
    /\ \A c \in DOMAIN img :
          /\ 0 <= img[c] /\ img[c] <= max_raster_code
          /\ raster_factor = None => (img[c] = 0 /\ phys[c] = 0)
          /\ raster_factor # None =>
                /\ img[c] * Unwrap(raster_factor) <= phys[c] * max_raster_code
                /\ phys[c] * max_raster_code - img[c] * Unwrap(raster_factor)
                      <= hist.writes * Unwrap(raster_factor)

\* two calls painted, and the contributions of some cell, times the factor
\* max_raster_code / d, are above max_raster_code
C1_Witness ==
    /\ hist.overflow
    /\ hist.calls = 2
    /\ hist.last = "painted"
    /\ \E c \in DOMAIN img : phys[c] > Unwrap(raster_factor)

\* C2: the raster factor is nil from construction until add_basin comes to
\* its first non-zero contribution; from then on it is set and greater
\* than 0 and no later call, failing and no-op ones included, makes it nil
\* again.
C2_NilUntilContribution ==
    /\ (raster_factor = None) <=> (hist.contributions = 0)
    /\ raster_factor # None => Unwrap(raster_factor) > 0

C2_StaysActive ==
    raster_factor # None => (raster_factor' # None /\ Unwrap(raster_factor') > 0)

C11_TooFar(m) ==
    \A segment \in DOMAIN m.dist : m.dist[segment] > measurement_proximity

C11_ChecksDecide ==
    \A n \in 1..2 : \A ms \in MeasurementLists(n) :
        LET inside == \E k \in DOMAIN ms : ms[k].inside
            far == \E k \in DOMAIN ms : C11_TooFar(ms[k])
            failure == {"InvalidMeasurementLocation",
                        "ExceedingMeasurementProximity"}
        IN  /\ (inside \/ far) <=> AddBasinEntry(ms) \in failure
            /\ (inside /\ ~far) => AddBasinEntry(ms) = "InvalidMeasurementLocation"
            /\ (far /\ ~inside) =>
                  AddBasinEntry(ms) = "ExceedingMeasurementProximity"

C11_FailureKeepsMap ==
    (/\ hist'.calls # hist.calls
     /\ hist'.last \in {"InvalidMeasurementLocation",
                        "ExceedingMeasurementProximity"})
    => /\ img' = img
       /\ raster_factor' = raster_factor
       /\ \E n \in 1..2 : \E ms \in MeasurementLists(n) :
             /\ Len(ms) = hist'.measurements
             /\ AddBasinEntry(ms) = hist'.last
             /\ \E k \in DOMAIN ms : ms[k].inside \/ C11_TooFar(ms[k])

C12_NoOpEntries ==
    \A n \in 1..2 : \A ms \in MeasurementLists(n) :
        /\ ms = <<>> => AddBasinEntry(ms) = "empty"
        /\ (/\ ms # <<>>
            /\ CheckMeasurements(ms, 1) = "ok"
            /\ \A k \in DOMAIN ms : ms[k].surface_1cm = 0)
           => AddBasinEntry(ms) = "zero"

C12_NoOpKeepsMap ==
    (hist'.calls # hist.calls /\ hist'.last \in {"empty", "zero"})
    => /\ img' = img
       /\ raster_factor' = raster_factor
       /\ (hist'.last = "empty") <=> (hist'.measurements = 0)

C12_NoOpCalls == []C12_NoOpEntries /\ [][C12_NoOpKeepsMap]_vars

\* a painted map on which a call with measurements of zero activity
\* followed
C12_Witness ==
    /\ hist.last = "zero"
    /\ hist.measurements > 0
    /\ raster_factor # None
    /\ \E c \in DOMAIN img : img[c] > 0

C14_CloseTo(m, segment) == m.dist[segment] <= measurement_proximity

C14_OnlyIn(shoreline, segment) ==
    {c \in DOMAIN img : /\ c \in DOMAIN shoreline[segment]
                        /\ shoreline[segment][c] # 0
                        /\ \A other \in DOMAIN shoreline :
                              other # segment => shoreline[other][c] = 0}

C14_PaintsPerSegment ==
    (grid.err = "none" /\ hist.calls < MaxCalls) =>
        \A basin \in Basins(grid) : \A ms \in MeasurementLists(2) :
            (/\ basin.shoreline_width # None
             /\ Len(basin.shoreline) = 2
             /\ ms # <<>>
             /\ \A k \in DOMAIN ms : ~ms[k].inside
             /\ \E k \in DOMAIN ms : \E segment \in 1..2 :
                   C14_CloseTo(ms[k], segment))
            => /\ AddBasinEntry(ms) # "ExceedingMeasurementProximity"
               /\ AddBasinEntry(ms) = "paint" =>
                    LET st == PaintBasin(basin.shoreline,
                                         AverageSurfaceActivity(ms), "wrap")
                        got(c) == st.phys[c] - phys[c]
                    IN  st.err = "none" =>
                          /\ \A segment \in 1..2 :
                                (\A k \in DOMAIN ms : ~C14_CloseTo(ms[k], segment))
                                => \A c \in C14_OnlyIn(basin.shoreline, segment) :
                                      got(c) = 0
                          /\ (/\ Len(ms) = 2
                              /\ ms[1].surface_1cm # ms[2].surface_1cm
                              /\ \A k \in 1..2 : \A segment \in 1..2 :
                                    C14_CloseTo(ms[k], segment) <=> k = segment)
                             => \A c \in C14_OnlyIn(basin.shoreline, 1) :
                                \A d \in C14_OnlyIn(basin.shoreline, 2) :
                                    got(c) # got(d)

\* C15: construction computes x_res = floor((lr.lon - ul.lon) / step) and
\* y_res = floor((ul.lat - lr.lat) / step) and fails with
\* ExceedingStepError unless both are positive, also for an lr that lies
\* left of ul or above it.
C15_ConstructionChecks ==
    LET x == Floor(grid.lr.lon - grid.ul.lon, grid.step)
        y == Floor(grid.ul.lat - grid.lr.lat, grid.step)
    IN  /\ (grid.err = "ExceedingStepError") <=> ~(x > 0 /\ y > 0)
        /\ grid.err = "none" => (grid.x_res = x /\ grid.y_res = y)

\* C16: a constructed map has floor((lr.lon - ul.lon) / step) columns and
\* floor((ul.lat - lr.lat) / step) rows, so that it covers the requested
\* extent but for less than one cell in each direction, and every cell is 0
\* until add_basin is called.
C16_RasterShape ==
    grid.err = "none" =>
        /\ grid.width = Floor(grid.lr.lon - grid.ul.lon, grid.step)
        /\ grid.height = Floor(grid.ul.lat - grid.lr.lat, grid.step)
        /\ 0 <= (grid.lr.lon - grid.ul.lon) - grid.width * grid.step
        /\ (grid.lr.lon - grid.ul.lon) - grid.width * grid.step < grid.step
        /\ 0 <= (grid.ul.lat - grid.lr.lat) - grid.height * grid.step
        /\ (grid.ul.lat - grid.lr.lat) - grid.height * grid.step < grid.step
        /\ DOMAIN img = (0..(grid.height - 1)) \X (0..(grid.width - 1))
        /\ hist.calls = 0 => \A c \in DOMAIN img : img[c] = 0

\* C17: total_effective_dose_for_period fails unknown-nuclide when the
\* nuclide is absent from the groups; otherwise fails invalid-period when
\* years < 1; otherwise returns E_cloud for a nuclide of group IRG, whatever
\* the years; otherwise returns E_cloud + E_inh + E_surf + E_food when
\* years = 1 and fails not-implemented when years > 1.
C17_PeriodDoseChecksInOrder ==
    (fcall.fn = "total_effective_dose_for_period" /\ fcall.out # None) =>
        LET a == fcall.args
            out == Unwrap(fcall.out)
            known == a.nuclide \in DOMAIN a.nuclide_groups
            irg == a.nuclide_groups[a.nuclide] = "IRG"
        IN  /\ ~known => out = Raised("unknown nuclide")
            /\ (known /\ a.years < 1) => out = Raised("invalid period")
            /\ (known /\ a.years >= 1 /\ irg) => out = Returned(a.cloud_ed)
            /\ (known /\ a.years = 1 /\ ~irg) =>
                   out = Returned(a.cloud_ed + a.inh_ed + a.surf_ed
                                  + a.food_ed)
            /\ (known /\ a.years > 1 /\ ~irg) =>
                   out = Raised("NotImplementedError")

\* an unknown nuclide with an invalid period: the first check decided
C17_Witness ==
    /\ fcall.fn = "total_effective_dose_for_period"
    /\ fcall.out = Some(Raised("unknown nuclide"))
    /\ fcall.args.years < 1

\* C18: effective_dose returns the maximum, over the six stability classes
\* A..F, of the sum over the nuclides of that class's dose; raising any one
\* per-class per-nuclide dose never lowers the result.
C18_MaxOfClassSums ==
    (fcall.fn = "effective_dose" /\ fcall.out # None) =>
        LET doses == fcall.args.nuclide_aclass_doses
            dose == Unwrap(Unwrap(fcall.out).value)
            ClassSum(aclass) ==
                SumOf([k \in DOMAIN doses |-> doses[k][aclass]])
        IN  /\ Unwrap(fcall.out).raised = "none"
            /\ \A aclass \in pasquill_gifford_classes : ClassSum(aclass) <= dose
            /\ \E aclass \in pasquill_gifford_classes : ClassSum(aclass) = dose
            /\ \A k \in DOMAIN doses : \A aclass \in pasquill_gifford_classes :
                   effective_dose(
                       [doses EXCEPT ![k][aclass] = @ + 1]) >= dose

\* test_effective_dose: the class sums are 2, 6, 12, 18, 10, 4
C18_Witness ==
    /\ fcall.fn = "effective_dose"
    /\ fcall.args.nuclide_aclass_doses = TestAclassDoses
    /\ fcall.out = Some(Returned(18))

\* the rows of a call of food_max_distance that attain the maximum of the
\* class-maximum of the nuclide-summed dose
C19_MaximalRows(args) ==
    LET Dose(i) ==
            MaxOf({SumOf(args.doses_matrix.data[i][c]) :
                       c \in DOMAIN args.doses_matrix.data[i]})
    IN  {i \in DOMAIN args.distances :
            \A j \in DOMAIN args.distances : Dose(j) <= Dose(i)}

C19_MatchingShape(args) ==
    /\ args.doses_matrix.shape[1] = Len(args.distances)
    /\ args.doses_matrix.shape[2] = Cardinality(pasquill_gifford_classes)

C19_ClipUp(x, minimal_distance) ==
    IF x < minimal_distance THEN minimal_distance ELSE x

\* C19: for every distances array and dose matrix of matching shape
\* food_max_distance returns a value >= min_d; when a single row i* attains
\* the maximal dose it returns max(distances[i*], min_d) and when several
\* rows tie it returns the largest distance among the tied rows, clipped up
\* to min_d.
C19_LargestTiedDistance ==
    (/\ fcall.fn = "food_max_distance"
     /\ fcall.out # None
     /\ C19_MatchingShape(fcall.args)) =>
        LET a == fcall.args
            out == Unwrap(fcall.out)
            rows == C19_MaximalRows(a)
        IN  /\ out.raised = "none"
            /\ Unwrap(out.value) >= a.minimal_distance
            /\ \A i \in rows :
                   rows = {i} =>
                       Unwrap(out.value)
                           = C19_ClipUp(a.distances[i], a.minimal_distance)
            /\ Cardinality(rows) > 1 =>
                   Unwrap(out.value)
                       = C19_ClipUp(MaxOf({a.distances[i] : i \in rows}),
                                    a.minimal_distance)

\* C19 as amended: for every non-empty distances array and dose matrix of
\* matching shape food_max_distance returns a value >= min_d; when a single
\* row i* attains the maximal dose it returns max(distances[i*], min_d) and
\* when several rows tie it returns the distance of the last tied row,
\* clipped up to min_d, which is the largest tied distance when the
\* distances ascend.
C19_LastTiedDistance ==
    (/\ fcall.fn = "food_max_distance"
     /\ fcall.out # None
     /\ C19_MatchingShape(fcall.args)
     /\ Len(fcall.args.distances) > 0) =>
        LET a == fcall.args
            out == Unwrap(fcall.out)
            rows == C19_MaximalRows(a)
            ascending ==
                \A i \in rows : \A j \in rows :
                    i <= j => a.distances[i] <= a.distances[j]
        IN  /\ out.raised = "none"
            /\ Unwrap(out.value) >= a.minimal_distance
            /\ \A i \in rows :
                   rows = {i} =>
                       Unwrap(out.value)
                           = C19_ClipUp(a.distances[i], a.minimal_distance)
            /\ Cardinality(rows) > 1 =>
                   /\ Unwrap(out.value)
                          = C19_ClipUp(a.distances[MaxOf(rows)],
                                       a.minimal_distance)
                   /\ ascending =>
                          Unwrap(out.value)
                              = C19_ClipUp(
                                    MaxOf({a.distances[i] : i \in rows}),
                                    a.minimal_distance)

\* two tied rows whose distances descend: the call returned the last row's
\* distance, the smaller one
C19_Witness ==
    /\ fcall.fn = "food_max_distance"
    /\ fcall.args.distances = <<4, 3>>
    /\ fcall.args.minimal_distance = 0
    /\ fcall.out = Some(Returned(3))
    /\ C19_MaximalRows(fcall.args) = {1, 2}

\* C20: dispersion_coeff_y fails out-of-range exactly when x < 0 or
\* x >= 50000; for 0 <= x < 10000 it returns the power law p_y * x^q_y and
\* for 10000 <= x < 50000 the square-root branch, so x = 10000 is served by
\* the square-root branch and x = 50000 raises.
C20_DispersionBranches ==
    (fcall.fn = "dispersion_coeff_y" /\ fcall.out # None) =>
        LET a == fcall.args
            out == Unwrap(fcall.out)
        IN  /\ out.raised # "none" <=> (a.distance < 0 \/ a.distance >= 50000)
            /\ (0 <= a.distance /\ a.distance < 10000) =>
                   out.value = Some(PowerLaw(a.p_y, a.q_y, a.distance))
            /\ (10000 <= a.distance /\ a.distance < 50000) =>
                   out.value = Some(SquareRoot(a.p_y, a.q_y, a.distance))

\* the call at x = 10000 took the square-root branch
C20_Witness ==
    /\ fcall.fn = "dispersion_coeff_y"
    /\ fcall.args.distance = 10000
    /\ fcall.out # None
    /\ Unwrap(fcall.out).raised = "none"
    /\ Unwrap(Unwrap(fcall.out).value).expr
           = "p_y * pow(10000, q_y - 0.5) * sqrt(distance)"

\* the number of connected pieces of the contour minus the map ring: every
\* piece begins at a vertex on the ring with an edge that leaves the ring
C21_Pieces(contour, ring) ==
    Cardinality({k \in DOMAIN contour :
                    OnRing(contour[k], ring) /\ ~EdgeOnRing(contour, k, ring)})

\* C21: for a Basin built against a map ring M that contains polygon P, the
\* shoreline is the whole boundary of P as one closed ring (is_closed, one
\* segment) if and only if P's boundary is disjoint from M or meets it only
\* in isolated points; otherwise the shoreline is P's boundary minus M, open
\* line strings (not is_closed), and shoreline_segments_count is the number
\* of disjoint pieces.
C21_ShorelineShape ==
    (basinCall.state = "done" /\ basinCall.basin.raised = "none") =>
        LET basin == basinCall.basin
            contour == basinCall.contour
            ring == basinCall.map_contour
            points_only ==
                \A k \in DOMAIN contour : ~EdgeOnRing(contour, k, ring)
        IN  /\ is_closed(basin) <=> points_only
            /\ points_only =>
                   /\ shoreline_segments_count(basin) = 1
                   /\ basin.shoreline.geoms = <<contour \o <<contour[1]>>>>
            /\ ~points_only =>
                   /\ \A i \in DOMAIN basin.shoreline.geoms :
                          \A j \in 1..(Len(basin.shoreline.geoms[i]) - 1) :
                              \E k \in DOMAIN contour :
                                  /\ ~EdgeOnRing(contour, k, ring)
                                  /\ contour[k] = basin.shoreline.geoms[i][j]
                                  /\ NextVertex(contour, k)
                                         = basin.shoreline.geoms[i][j + 1]
                   /\ shoreline_segments_count(basin)
                          = C21_Pieces(contour, ring)

\* the candidate polygon is one Basin accepts: the map ring contains it and
\* it is not the map ring itself
C22_Accepted(contour, ring) ==
    /\ \A k \in DOMAIN contour : InRectangle(contour[k], ring)
    /\ \E k \in DOMAIN contour : ~EdgeOnRing(contour, k, ring)

\* C22 (Basin): the construction fails with the out-of-map ValueError
\* exactly when the map ring does not contain the candidate polygon or the
\* polygon equals the map ring.
C22_OutOfMap ==
    basinCall.state = "done" =>
        (basinCall.basin.raised = "ValueError"
            <=> ~C22_Accepted(basinCall.contour, basinCall.map_contour))

\* C22 (BasinsFinder): the constructor never aborts on a rejected
\* candidate; every contour is dealt with and the basins list holds exactly
\* the accepted candidates with at least three vertices, in contour order.
C22_SkipsRejected ==
    basinCall.state = "unused" =>
        LET accepted ==
                SelectSeq(finder.pix_cnts,
                          LAMBDA c : /\ Len(c) >= 3
                                     /\ C22_Accepted(CoordCnt(c), GetMapContour))
        IN  /\ finder.raised = "none"
            /\ Len(finder.fate) = Len(finder.pix_cnts)
            /\ Len(finder.basins) = Len(accepted)
            /\ \A i \in DOMAIN accepted :
                   /\ finder.basins[i].raised = "none"
                   /\ finder.basins[i].body = CoordCnt(accepted[i])

C22_RejectedCandidates == C22_OutOfMap /\ C22_SkipsRejected

\* a finder built from three contours, the second of which is the whole
\* map: the first and the third became basins
C22_Witness ==
    /\ basinCall.state = "unused"
    /\ Len(finder.pix_cnts) = 3
    /\ finder.fate = <<"added", "logged", "added">>
    /\ Len(finder.basins) = 2

\* C23 (result): get_basin(coo) returns the first basin, in the finder's
\* basin order, whose body contains the point, and None when no basin
\* contains it.
C23_FirstContaining ==
    lastGet.called =>
        LET containing ==
                {i \in DOMAIN finder.basins :
                    BodyContains(finder.basins[i].body, lastGet.coo)}
        IN  IF containing = {} THEN lastGet.ret = None
            ELSE lastGet.ret
                     = Some(finder.basins[
                                CHOOSE i \in containing :
                                    \A j \in containing : i <= j])

\* C23 (frame): get_basin leaves the finder's basin list unchanged.
C23_KeepsBasins == finder' = finder

C23_GetBasin == []C23_FirstContaining /\ [][C23_KeepsBasins]_vars

\* two different basins contain the point; the call returned the first
C23_Witness ==
    /\ lastGet.called
    /\ Len(finder.basins) = 2
    /\ finder.basins[1] # finder.basins[2]
    /\ BodyContains(finder.basins[1].body, lastGet.coo)
    /\ BodyContains(finder.basins[2].body, lastGet.coo)
    /\ lastGet.ret = Some(finder.basins[1])

\* the non-zero cells of the raster, in the order the loops reach them
RECURSIVE C24_NonzeroFrom(_, _)
C24_NonzeroFrom(raster, k) ==
    IF k > Len(raster) * Len(raster[1]) THEN <<>>
    ELSE LET c == LoopCell(raster, k) IN
         (IF raster[c.j][c.i].activity # 0 THEN <<c>> ELSE <<>>)
             \o C24_NonzeroFrom(raster, k + 1)

\* the input of the cell fails Model.validate_input
C24_Invalid(raster, nuclide, c) ==
    ~ValidateInput(FullInput(raster[c.j][c.i], nuclide))

\* the call model.calculate made for a cell with an invalid input returned
\* False and left every accumulator as it was
C24_SkippedSilently ==
    doseCall.state = "done" =>
        \A k \in 1..Len(doseCall.out.calls) :
            LET call == doseCall.out.calls[k] IN
            C24_Invalid(doseCall.raster, doseCall.nuclide, call.cell) =>
                call.outcome = "False" /\ call.after = call.before

\* C24: in calculate_dose a non-zero cell whose model input fails
\* validation raises no error and adds nothing to any accumulator, and it
\* does not stop the loop: every remaining non-zero cell is still processed
C24_InvalidCellSkipped ==
    doseCall.state = "done" =>
        LET nonzero == C24_NonzeroFrom(doseCall.raster, 1)
            calls == doseCall.out.calls
        IN  \A k \in 1..Len(calls) :
                C24_Invalid(doseCall.raster, doseCall.nuclide, calls[k].cell) =>
                    /\ calls[k].outcome = "False"
                    /\ calls[k].after = calls[k].before
                    /\ \A n \in k..Len(nonzero) :
                           /\ n <= Len(calls)
                           /\ calls[n].cell = nonzero[n]
                           /\ calls[n].outcome \in {"True", "False"}

C25_RowPerPair ==
    pointsCall.state = "done" =>
        LET rows == pointsCall.out.rows
            pairs == Len(pointsCall.points) * Len(pointsCall.activity_maps)
        IN  /\ Len(rows) = 1 + pairs
            /\ rows[1] = HeaderRow
            /\ \A k \in 1..pairs :
                   LET pair == PointsPair(pointsCall.activity_maps, k) IN
                   /\ rows[k + 1].kind = "dose"
                   /\ rows[k + 1].point = pair.point
                   /\ rows[k + 1].map = pair.map
                   /\ rows[k + 1].name = pointsCall.points[pair.point].name
                   /\ rows[k + 1].nuclide =
                          pointsCall.activity_maps[pair.map].nuclide

\* the step is a call of add_basin that came to one non-zero contribution
C26_OneContribution == hist'.contributions = hist.contributions + 1

\* the map after one contribution A to cell c, as the claim has it: codes
\* are whole, the factor max_raster_code / d is kept as its divisor d
C26_Painted(c, A) ==
    IF raster_factor = None
    THEN /\ raster_factor' = Some(2 * A)
         /\ img' = [img EXCEPT ![c] = @ + (max_raster_code * A) \div (2 * A)]
    ELSE IF A > Unwrap(raster_factor)
    THEN /\ raster_factor' = Some(2 * A)
         /\ img' = [cell \in DOMAIN img |->
                      (img[cell] * Unwrap(raster_factor)) \div (2 * A)
                      + (IF cell = c THEN (max_raster_code * A) \div (2 * A)
                         ELSE 0)]
    ELSE /\ raster_factor' = raster_factor
         /\ img' = [img EXCEPT ![c] =
                      (@ * Unwrap(raster_factor) + max_raster_code * A)
                          \div Unwrap(raster_factor)]

C26_Contribution ==
    C26_OneContribution =>
        \E c \in DOMAIN img :
            /\ phys' = [phys EXCEPT ![c] = @ + (phys'[c] - phys[c])]
            /\ phys'[c] > phys[c]
            /\ C26_Painted(c, phys'[c] - phys[c])

\* C26: the first non-zero contribution A sets the factor to 65535/(2*A);
\* a later contribution A makes a new factor 65535/(2*A) only if
\* A * raster_factor > 65535, and then every stored code is multiplied by
\* new/old (truncated) before the new code is added; otherwise the factor
\* and the other cells stay and the painted cell's code grows by
\* A * raster_factor
C26_RescaleOnDemand == [][C26_Contribution]_vars

\* C29: on every grid the constructor accepted, also a non-square one,
\* the (i, j) pairs add_basin iterates are the cells of the raster, each
\* visited once per segment, and no store falls outside the array
C29_IndexSafety ==
    grid.err = "none" =>
        /\ \A k \in DOMAIN LoopCells(grid) : LoopCells(grid)[k] \in RasterCells(grid)
        /\ \A c \in RasterCells(grid) :
               Cardinality({k \in DOMAIN LoopCells(grid) : LoopCells(grid)[k] = c}) = 1
        /\ hist.last # "IndexError"

\* a calculate() on a valid input has replaced every lazy node by a fresh
\* one: the node exists and its table holds nothing of the node before
C28_Replaced ==
    (lastCalc' # lastCalc /\ ~C9_Rejected(Unwrap(lastCalc').inp)) =>
        \A n \in XmaxLevals \cup ExposureLevals \cup TotalLevals \cup DoseLevals :
            /\ n \in DOMAIN levals'
            /\ n \in DOMAIN levals =>
                   \A params \in DOMAIN levals[n] : params \notin DOMAIN levals'[n]

\* C28: memoized results do not persist between calculations: each
\* calculate() with a valid input replaces every lazy node by a fresh one
\* with an empty results table
C28_NoMemoAcrossCalls == [][C28_Replaced]_vars

\* the default constraints accept the distance and the square side of the
\* call
C30_Accepted(args) ==
    LET i == MkInput(args.distance, 2 * args.half_square_side, {"Cs-137"}, "none")
    IN  \A k \in DOMAIN DefaultConstraints :
            ValidatorResult(DefaultConstraints[k].validator, i)

\* C30: for every distance and square side the default constraints accept,
\* every argument dilution_factor and sedimentation_factor pass to
\* dispersion_coeff_y lies in [0, 50000), and the out-of-range error is
\* not raised
C30_AcceptedInDomain ==
    (/\ fcall.fn \in {"dilution_factor", "sedimentation_factor"}
     /\ fcall.out # None
     /\ C30_Accepted(fcall.args)) =>
        /\ \A arg \in Unwrap(fcall.out).passed : 0 <= arg /\ arg < 50000
        /\ Unwrap(fcall.out).raised # "ValueError"

=============================================================================
